---- MODULE Spec2Model ----
(***************************************************************************)
(* A model of the provider-dispatch runtime of llxprt-code: the retry      *)
(* engine (utils/retry.ts), the transient-error classification, the        *)
(* Anthropic adapter (message conversion, tool-id canonicalisation, HTTP   *)
(* client cache, streaming loop), the provider manager and the profile     *)
(* manager.  Each subsystem has its own variables, its own initial         *)
(* condition and its own next-state relation; a subsystem's specification  *)
(* leaves the variables of the other subsystems at their idle values.      *)
(***************************************************************************)
EXTENDS Integers, Sequences, FiniteSets, Bags, TLC

VARIABLES
    \* ---- retry engine (retryWithBackoff) ----
    rOpts,          \* the merged options of the call
    rPc,            \* "loop" | "sleeping" | "returned" | "thrown"
    rAttempt,       \* let attempt
    rCurrentDelay,  \* let currentDelay
    rCalls,         \* number of invocations of fn so far
    rFirstSuccess,  \* index of the first invocation of fn that succeeded (0: none)
    rResult,        \* the value returned (the index of the invocation that produced it)
    rErr,           \* the error caught last (a node of RetryHeap, 0: none)
    rErrInv,        \* the invocation that threw rErr
    rThrown,        \* [err, inv]: what retryWithBackoff rethrew (inv 0: its own error)
    rSleep,         \* the sleep in progress or the last one
    rSleeps,        \* number of delay() calls
    rStreak,        \* length of the run of backoff waits (not Retry-After) ending with rSleep
    rTracked,       \* [n, last]: how often trackThrottleWaitTime was called, and its last argument
    rCancels,       \* how often the caller cancelled the call so far
    \* ---- transient classification (collectErrorDetails) ----
    eHeap,          \* the error object graph under classification
    eRoot,          \* the error handed to isNetworkTransientError
    eSt,            \* [stack, visited, messages, codes] of the traversal
    ePc,            \* "walk" | "done"
    eVisits,        \* how often each object was expanded
    eResult,        \* what isNetworkTransientError returned
    \* ---- conversion of the history to Anthropic messages ----
    cIn,            \* options.contents
    cPc,            \* "idle" | "ready" | "sent" | "threw"
    cOut,           \* the messages of the request sent
    \* ---- tool id normalization ----
    tId,            \* the id handed in
    tPc,            \* "idle" | "ready" | "history" | "anthropic" | "sent"
    tOut,           \* the outcome of the step taken
    \* ---- HTTP client cache ----
    runtimeClientCache,     \* cache key -> client
    runtimeClientKeyIndex,  \* runtime key -> set of cache keys
    kCalls,         \* number of getClientForCall calls so far
    kLast,          \* the last operation: [op, options, threw, client, key]
    \* ---- ProviderManager ----
    pmProviders,    \* this.providers, in insertion order
    pmActive,       \* settingsService.get('activeProvider')
    pmServerTools,  \* this.serverToolsProvider
    pmConfig,       \* this.config
    pmSerial,       \* number of LoggingProviderWrapper objects made
    pmOps,          \* number of operations so far
    pmLast,         \* the last operation, what it found and what it did, in order
    \* ---- ProviderManager: session token usage ----
    sessionTokenUsage,  \* this.sessionTokenUsage
    uApplied,       \* the bag of the updates accumulated since the last reset
    uOps,           \* number of operations so far
    uLast,          \* the last operation, the counters before it and what it returned
    \* ---- ProfileManager ----
    fFiles,         \* profile name -> text of <profilesDir>/<name>.json
    fSaved,         \* profile name -> the profile saveProfile wrote, no other write since
    fOps,           \* number of operations so far
    fLast,          \* the last operation and its outcome
    \* ---- streaming loop ----
    sEvents,        \* the events received so far
    sOpen,          \* the provider's open content block: "none" | "text" | "tool_use"
    currentToolCall,    \* the tool call under assembly
    sYielded,       \* the items yielded so far
    sPc,            \* "idle" | "streaming" | "done"
    \* ---- two calls in flight on one adapter ----
    gFields,        \* the fields of the AnthropicProvider instance
    gOptions,       \* call -> its options
    gClient,        \* call -> const client
    gEvents,        \* call -> the events its stream delivered so far
    gOpen,          \* call -> the open content block of its stream
    gToolCall,      \* slot -> let currentToolCall
    gYielded,       \* call -> the items it yielded so far
    gPc,            \* call -> "idle" | "new" | "streaming" | "done"
    \* ---- request bodies of calls on one adapter ----
    qGlobalConfig,  \* this.globalConfig
    qProviderConfig,    \* this.providerConfig
    qSent,          \* the calls made: [options, body]
    qPc,            \* "idle" | "ready" | "done"
    \* ---- a streamed call under the retry engine ----
    oOpts,          \* the retry options of the outer call
    oPc,            \* "idle" | "loop" | "streaming" | "sleeping" | "returned" | "thrown"
    oAttempt,       \* let attempt
    oCurrentDelay,  \* let currentDelay
    oSleep,         \* the sleep in progress
    oLog,           \* the events delivered, attempt by attempt
    oToolCall,      \* let currentToolCall of the attempt in progress
    oReceived,      \* the items the consumer has received
    oThrown,        \* the error the outer call threw (a node of OuterHeap, 0: none)
    \* ---- concurrent getClientForCall invocations ----
    aPc,            \* call -> "idle" | "new" | "awaiting" | "done" | "threw"
    aOptions,       \* call -> its options
    aSeen,          \* call -> the cache as it was when the invocation began
    aKey,           \* call -> const cacheKey
    aClient,        \* call -> the client returned
    aMade,          \* the cache keys instantiateClient was called for, in order
    \* ---- one call from its options to the request ----
    wContents,      \* options.contents
    wToken,         \* options.resolved.authToken ('' when absent)
    wPc,            \* "idle" | "ready" | "sent" | "threw"
    wClient,        \* const client
    wBody,          \* requestBody
    \* ---- TemplateEngine.processTemplate ----
    mContent,       \* content
    mVars,          \* variables
    mPc,            \* "idle" | "ready" | "done"
    mResult,        \* the string returned
    \* ---- TaskToolInvocation.execute ----
    tkInput,        \* what the invocation and the launched scope provide
    tkSignal,       \* signal.aborted
    tkPc,           \* "idle" | "entry" | "launching" | "running" | "disposing" | "returned"
    tkOrchestrators, \* calls of deps.createOrchestrator()
    tkLaunches,     \* calls of orchestrator.launch()
    tkLaunched,     \* launch() has resolved
    tkListener,     \* abortHandler is registered on the signal
    tkAborted,      \* the local flag `aborted`
    tkCancels,      \* calls of scope.cancel()
    tkDisposes,     \* calls of dispose()
    tkRun,          \* the method of the scope that was awaited
    tkResult,       \* the kind of result built: "none" | "cancelled" | "error" | "success"
    tkAbortAt,      \* where execute() was when the signal aborted ("none": it did not)
    \* ---- runNonInteractive ----
    nMax,           \* config.getMaxSessionTurns()
    nPc,            \* "idle" | "loop" | "streaming" | "tools" | "returned" | "thrown"
    nTurn,          \* turnCount
    nMessage,       \* currentMessages[0].parts
    nRequests,      \* the parts passed to sendMessageStream, call by call
    nCalls,         \* functionCalls of the turn
    nParts,         \* toolResponseParts of the turn
    nNext,          \* position of the tool loop in functionCalls
    nError,         \* what was thrown ("": nothing)
    nTurns,         \* per turn, the calls requested and the response parts of each call executed
    \* ---- ProfileManager.save / load on a SettingsService ----
    vService,       \* the optional methods of the settings service
    vFiles,         \* profile name -> content of its file
    vName,          \* the current profile name of the service ("": none)
    vImported,      \* the profile whose settings the service imported last
    vToolsSet,      \* the tool settings were written with set()
    vOps,           \* calls made so far
    vLast           \* the last call: how it ended and what it found

retryVars == <<rOpts, rPc, rAttempt, rCurrentDelay, rCalls, rFirstSuccess,
               rResult, rErr, rErrInv, rThrown, rSleep, rSleeps, rStreak, rTracked,
               rCancels>>
errVars == <<eHeap, eRoot, eSt, ePc, eVisits, eResult>>
convVars == <<cIn, cPc, cOut>>
toolIdVars == <<tId, tPc, tOut>>
cacheVars == <<runtimeClientCache, runtimeClientKeyIndex, kCalls, kLast>>
usageVars == <<sessionTokenUsage, uApplied, uOps, uLast>>
profileVars == <<fFiles, fSaved, fOps, fLast>>
streamVars == <<sEvents, sOpen, currentToolCall, sYielded, sPc>>
pmVars == <<pmProviders, pmActive, pmServerTools, pmConfig, pmSerial, pmOps, pmLast>>
concVars == <<gFields, gOptions, gClient, gEvents, gOpen, gToolCall, gYielded, gPc>>
requestVars == <<qGlobalConfig, qProviderConfig, qSent, qPc>>
outerVars == <<oOpts, oPc, oAttempt, oCurrentDelay, oSleep, oLog, oToolCall, oReceived,
               oThrown>>
acquireVars == <<aPc, aOptions, aSeen, aKey, aClient, aMade>>
wireVars == <<wContents, wToken, wPc, wClient, wBody>>
templateVars == <<mContent, mVars, mPc, mResult>>
taskVars == <<tkInput, tkSignal, tkPc, tkOrchestrators, tkLaunches, tkLaunched,
              tkListener, tkAborted, tkCancels, tkDisposes, tkRun, tkResult, tkAbortAt>>
nonIntVars == <<nMax, nPc, nTurn, nMessage, nRequests, nCalls, nParts, nNext, nError,
                nTurns>>
settingsVars == <<vService, vFiles, vName, vImported, vToolsSet, vOps, vLast>>

-----------------------------------------------------------------------------
(* Small helpers.                                                          *)

Max(a, b) == IF a >= b THEN a ELSE b
Min(a, b) == IF a <= b THEN a ELSE b

Last(s) == s[Len(s)]
Front(s) == SubSeq(s, 1, Len(s) - 1)

-----------------------------------------------------------------------------
(* Strings.  A message or a code is one of a few sample strings; what the  *)
(* JavaScript string functions return on each sample is tabulated.         *)

\* String.prototype.toLowerCase on the sample messages.
ToLowerCase(m) ==
    CASE m = "Socket Hang Up" -> "socket hang up"
      [] m = "read ECONNRESET" -> "read econnreset"
      [] m = "ETIMEDOUT on fetch" -> "etimedout on fetch"
      [] m = "TCP connection was reset" -> "tcp connection was reset"
      [] m = "Bad Request" -> "bad request"
      [] m = "Stream Closed" -> "stream closed"
      [] OTHER -> m

\* String.prototype.toUpperCase on the sample codes.
ToUpperCase(c) ==
    CASE c = "econnreset" -> "ECONNRESET"
      [] c = "und_err_socket" -> "UND_ERR_SOCKET"
      [] c = "eacces" -> "EACCES"
      [] OTHER -> c

STREAM_INTERRUPTED_ERROR_CODE == "LLXPRT_STREAM_INTERRUPTED"

TRANSIENT_ERROR_PHRASES ==
    {"connection error", "connection terminated", "connection reset",
     "socket hang up", "socket hung up", "socket closed", "socket timeout",
     "network timeout", "network error", "fetch failed", "request aborted",
     "request timeout", "stream closed", "stream prematurely closed",
     "read econnreset", "write econnreset"}

TRANSIENT_ERROR_CODES ==
    {"ECONNRESET", "ECONNREFUSED", "ECONNABORTED", "ENETUNREACH", "EHOSTUNREACH",
     "ETIMEDOUT", "EPIPE", "EAI_AGAIN", "UND_ERR_SOCKET", "UND_ERR_CONNECT_TIMEOUT",
     "UND_ERR_HEADERS_TIMEOUT", "UND_ERR_BODY_TIMEOUT", STREAM_INTERRUPTED_ERROR_CODE}

\* msg.includes(phrase) on the sample messages: the phrases each contains.
PhrasesIncluded(m) ==
    CASE m = "socket hang up" -> {"socket hang up"}
      [] m = "read econnreset" -> {"read econnreset"}
      [] m = "stream closed" -> {"stream closed"}
      [] m = "fetch failed" -> {"fetch failed"}
      [] OTHER -> {}

\* TRANSIENT_ERROR_REGEXES.some(regex => regex.test(msg)): all four carry the
\* i flag, so the case of the message does not matter.
MatchesTransientRegex(m) ==
    ToLowerCase(m) \in {"read econnreset", "etimedout on fetch", "tcp connection was reset"}

\* error.message.includes('429')
Includes429(m) == m \in {"quota 429 exceeded", "request id 14295 rejected"}

\* error.message.match(/5\d{2}/)
Matches5xx(m) == m \in {"upstream 503", "request id 1500 rejected"}

-----------------------------------------------------------------------------
(* Error objects.  An error graph is a function from object ids 1..n to    *)
(* records; a reference is an id, or 0 for null/undefined.  kind "str" is  *)
(* a string value found where an error was expected, kind "num" any other  *)
(* primitive.  message "" and code "" stand for a property that is absent  *)
(* or not a string.                                                        *)

NoHeaders == [present |-> FALSE, kind |-> "absent", n |-> 0]
NoResponse == [present |-> FALSE, status |-> 0, headers |-> NoHeaders]

ErrObj(message, code, cause, originalError, error) ==
    [kind |-> "obj", message |-> message, code |-> code, cause |-> cause,
     originalError |-> originalError, error |-> error,
     status |-> 0, response |-> NoResponse]

HttpErr(message, status, response) ==
    [kind |-> "obj", message |-> message, code |-> "", cause |-> 0,
     originalError |-> 0, error |-> 0, status |-> status, response |-> response]

StrVal(s) ==
    [kind |-> "str", message |-> s, code |-> "", cause |-> 0,
     originalError |-> 0, error |-> 0, status |-> 0, response |-> NoResponse]

\* The nested errors with the error property forgotten.
PossibleNestedErrors_NoError(o) == <<o.cause, o.originalError, 0>>

\* The three properties collectErrorDetails follows, in the order it pushes them.
PossibleNestedErrors(o) == <<o.cause, o.originalError, o.error>>

\* The references of `nested` that are pushed: truthy and not `current` itself.
PushNested(stack, nested, current) ==
    LET keep(i) == nested[i] # 0 /\ nested[i] # current
        sel == SelectSeq(<<1, 2, 3>>, keep)
    IN  stack \o [i \in 1..Len(sel) |-> nested[sel[i]]]

\* The loop body without visited.add(current).
CollectStep_NoVisitedAdd(heap, st) ==
    LET current == Last(st.stack)
        rest == Front(st.stack)
    IN  IF current = 0
        THEN [st EXCEPT !.stack = rest]
        ELSE IF heap[current].kind = "str"
        THEN [st EXCEPT !.stack = rest,
                        !.messages = Append(@, heap[current].message)]
        ELSE IF heap[current].kind # "obj"
        THEN [st EXCEPT !.stack = rest]
        ELSE IF current \in st.visited
        THEN [st EXCEPT !.stack = rest]
        ELSE LET o == heap[current]
             IN  [stack |-> PushNested(rest, PossibleNestedErrors(o), current),
                  visited |-> st.visited,
                  messages |-> IF o.message # "" THEN Append(st.messages, o.message)
                               ELSE st.messages,
                  codes |-> IF o.code # "" THEN Append(st.codes, o.code)
                            ELSE st.codes]

\* One pass of the while loop of collectErrorDetails.
CollectStep(heap, st) ==
    LET current == Last(st.stack)
        rest == Front(st.stack)
    IN  IF current = 0
        THEN [st EXCEPT !.stack = rest]
        ELSE IF heap[current].kind = "str"
        THEN [st EXCEPT !.stack = rest,
                        !.messages = Append(@, heap[current].message)]
        ELSE IF heap[current].kind # "obj"
        THEN [st EXCEPT !.stack = rest]
        ELSE IF current \in st.visited
        THEN [st EXCEPT !.stack = rest]
        ELSE LET o == heap[current]
             IN  [stack |-> PushNested(rest, PossibleNestedErrors(o), current),
                  visited |-> st.visited \cup {current},
                  messages |-> IF o.message # "" THEN Append(st.messages, o.message)
                               ELSE st.messages,
                  codes |-> IF o.code # "" THEN Append(st.codes, o.code)
                            ELSE st.codes]

CollectStart(root) ==
    [stack |-> <<root>>, visited |-> {}, messages |-> <<>>, codes |-> <<>>]

RECURSIVE CollectLoop(_, _)
CollectLoop(heap, st) ==
    IF st.stack = <<>> THEN st ELSE CollectLoop(heap, CollectStep(heap, st))

collectErrorDetails(heap, root) == CollectLoop(heap, CollectStart(root))

SeqRange(s) == {s[i] : i \in 1..Len(s)}

\* The three tests of isNetworkTransientError on the collected details.
ClassifyDetails(d) ==
    \/ \E m \in SeqRange(d.messages) :
          PhrasesIncluded(ToLowerCase(m)) \cap TRANSIENT_ERROR_PHRASES # {}
    \/ \E m \in SeqRange(d.messages) : MatchesTransientRegex(m)
    \/ \E c \in SeqRange(d.codes) : ToUpperCase(c) \in TRANSIENT_ERROR_CODES

isNetworkTransientError(heap, root) ==
    ClassifyDetails(collectErrorDetails(heap, root))

\* The error built without its code.
createStreamInterruptionError_NoCode(message, cause) ==
    ErrObj(message, "", cause, 0, 0)

\* createStreamInterruptionError(message, details, cause): the object it builds.
createStreamInterruptionError(message, cause) ==
    ErrObj(message, STREAM_INTERRUPTED_ERROR_CODE, cause, 0, 0)

-----------------------------------------------------------------------------
(* The retry engine: retryWithBackoff and its helpers.                     *)

DEFAULT_MAX_ATTEMPTS == 5
DEFAULT_INITIAL_DELAY_MS == 5000
DEFAULT_MAX_DELAY_MS == 30000

\* Largest maxAttempts a caller passes explicitly in the model.
MaxAttemptsBound == 3

\* Most cancellations of one call.
MaxCancels == 2

\* A response object with a status and a retry-after header of the given form:
\* "digits" (the string of the integer n), "httpdate" (an HTTP date for the
\* instant n, in ms), "junk" (a string that is neither) or "number" (not a string).
Resp(status, kind, n) ==
    [present |-> TRUE, status |-> status,
     headers |-> [present |-> TRUE, kind |-> kind, n |-> n]]

\* The errors fn throws in the model.
RetryHeap ==
    <<HttpErr("Bad Request", 400, NoResponse),                      \* 1
      HttpErr("", 429, Resp(429, "digits", 2)),                     \* 2
      HttpErr("", 429, NoResponse),                                 \* 3
      HttpErr("", 503, NoResponse),                                 \* 4
      HttpErr("", 0, Resp(429, "digits", 1)),                       \* 5
      HttpErr("", 429, Resp(429, "httpdate", 3000)),                \* 6
      HttpErr("", 429, Resp(429, "digits", 0)),                     \* 7
      ErrObj("Socket Hang Up", "", 0, 0, 0),                        \* 8
      ErrObj("request failed", "", 10, 0, 0),                       \* 9
      createStreamInterruptionError("stream interrupted", 0),       \* 10
      HttpErr("request id 1500 rejected", 400, NoResponse),         \* 11
      ErrObj("boom", "", 0, 0, 0),                                  \* 12
      HttpErr("", 429, Resp(429, "junk", 0)),                       \* 13
      HttpErr("", 0, Resp(503, "absent", 0))>>                      \* 14

RetryErrors == DOMAIN RetryHeap

\* Date.now() at the moment a Retry-After date is read.
NowSamples == {1000, 5000}

\* Math.random(), in quarters: 0, 1/4, 2/4, 3/4.
RandomSamples == {0, 1, 2, 3}

getErrorStatus(o) ==
    IF o.kind # "obj" THEN 0
    ELSE IF o.status # 0 THEN o.status
    ELSE IF o.response.present /\ o.response.status # 0 THEN o.response.status
    ELSE 0

\* getRetryAfterDelayMs returning the header's seconds without the conversion to ms.
getRetryAfterDelayMs_Seconds(o, now) ==
    IF o.kind = "obj" /\ o.response.present /\ o.response.headers.present
    THEN LET h == o.response.headers
         IN  IF h.kind = "digits" THEN h.n
             ELSE IF h.kind = "httpdate" THEN Max(0, h.n - now)
             ELSE 0
    ELSE 0

\* parseInt(header, 10) * 1000, else the distance to the date, else 0.
getRetryAfterDelayMs(o, now) ==
    IF o.kind = "obj" /\ o.response.present /\ o.response.headers.present
    THEN LET h == o.response.headers
         IN  IF h.kind = "digits" THEN h.n * 1000
             ELSE IF h.kind = "httpdate" THEN Max(0, h.n - now)
             ELSE 0
    ELSE 0

getDelayDurationAndStatus(o, now) ==
    LET errorStatus == getErrorStatus(o)
    IN  [delayDurationMs |-> IF errorStatus = 429 THEN getRetryAfterDelayMs(o, now) ELSE 0,
         errorStatus |-> errorStatus]

defaultShouldRetry(heap, e) ==
    LET o == heap[e]
    IN  \/ o.kind = "obj" /\ o.status # 0
           /\ (o.status = 429 \/ (o.status >= 500 /\ o.status < 600))
        \/ o.kind = "obj" /\ o.message # ""
           /\ (Includes429(o.message) \/ Matches5xx(o.message))
        \/ isNetworkTransientError(heap, e)

\* options.shouldRetry: the default predicate or one the caller substitutes.
ShouldRetry(pred, heap, e) ==
    CASE pred = "default" -> defaultShouldRetry(heap, e)
      [] pred = "always" -> TRUE
      [] pred = "never" -> FALSE

\* The exhaustion test off by one: a last failed attempt still sleeps.
ExhaustedOrNoRetry_OffByOne(attempt, maxAttempts, retryable) ==
    attempt > maxAttempts \/ ~retryable

\* if (attempt >= maxAttempts || !shouldRetry(error)) throw error
ExhaustedOrNoRetry(attempt, maxAttempts, retryable) ==
    attempt >= maxAttempts \/ ~retryable

\* currentDelay * 0.3 * (Math.random() * 2 - 1), with Math.random() = rnd / 4
Jitter(currentDelay, rnd) == (currentDelay * 3 * (2 * rnd - 4)) \div 40

\* The sleep of one retry: the explicit Retry-After delay when it is positive,
\* else the current backoff delay with jitter.
SleepFor(o, now, rnd, currentDelay) ==
    LET d == getDelayDurationAndStatus(o, now).delayDurationMs
    IN  IF d > 0
        THEN [ms |-> d, explicit |-> TRUE, base |-> 0, jitter |-> 0]
        ELSE [ms |-> Max(0, currentDelay + Jitter(currentDelay, rnd)),
              explicit |-> FALSE, base |-> currentDelay,
              jitter |-> Jitter(currentDelay, rnd)]

\* The doubling without the cap of maxDelayMs.
NextDelay_NoCap(sleep, currentDelay, opts) ==
    IF sleep.explicit THEN opts.initialDelayMs
    ELSE currentDelay * 2

\* currentDelay after a sleep
NextDelay(sleep, currentDelay, opts) ==
    IF sleep.explicit THEN opts.initialDelayMs
    ELSE Min(opts.maxDelayMs, currentDelay * 2)

NoSleep == [ms |-> 0, explicit |-> FALSE, base |-> 0, jitter |-> 0]
NoThrow == [err |-> 0, inv |-> 0]

RetryOptionSets ==
    [maxAttempts : (0..MaxAttemptsBound) \cup {DEFAULT_MAX_ATTEMPTS},
     initialDelayMs : {1000, DEFAULT_INITIAL_DELAY_MS},
     maxDelayMs : {1500, DEFAULT_MAX_DELAY_MS},
     shouldRetry : {"default", "always", "never"},
     hasTracker : BOOLEAN]

RetryInit ==
    /\ rOpts \in RetryOptionSets
    /\ rPc = "loop"
    /\ rAttempt = 0
    /\ rCurrentDelay = rOpts.initialDelayMs
    /\ rCalls = 0
    /\ rFirstSuccess = 0
    /\ rResult = 0
    /\ rErr = 0
    /\ rErrInv = 0
    /\ rThrown = NoThrow
    /\ rSleep = NoSleep
    /\ rSleeps = 0
    /\ rStreak = 0
    /\ rTracked = [n |-> 0, last |-> 0]
    /\ rCancels = 0

RetryIdle ==
    /\ rOpts = [maxAttempts |-> 0, initialDelayMs |-> 0, maxDelayMs |-> 0,
                shouldRetry |-> "never", hasTracker |-> FALSE]
    /\ rPc = "idle"
    /\ rAttempt = 0
    /\ rCurrentDelay = 0
    /\ rCalls = 0
    /\ rFirstSuccess = 0
    /\ rResult = 0
    /\ rErr = 0
    /\ rErrInv = 0
    /\ rThrown = NoThrow
    /\ rSleep = NoSleep
    /\ rSleeps = 0
    /\ rStreak = 0
    /\ rTracked = [n |-> 0, last |-> 0]
    /\ rCancels = 0

\* One pass of the while loop up to its first await after fn(): fn returns, or
\* it throws and the catch block rethrows or starts a sleep.
RetryInvoke ==
    /\ rPc = "loop"
    /\ rAttempt < rOpts.maxAttempts
    /\ rAttempt' = rAttempt + 1
    /\ rCalls' = rCalls + 1
    /\ \E outcome \in {0} \cup RetryErrors :
          IF outcome = 0
          THEN /\ rPc' = "returned"
               /\ rResult' = rCalls'
               /\ rFirstSuccess' = IF rFirstSuccess = 0 THEN rCalls' ELSE rFirstSuccess
               /\ UNCHANGED <<rErr, rErrInv, rThrown, rSleep, rSleeps, rStreak>>
          ELSE /\ rErr' = outcome
               /\ rErrInv' = rCalls'
               /\ UNCHANGED <<rResult, rFirstSuccess>>
               /\ IF ExhaustedOrNoRetry(rAttempt', rOpts.maxAttempts,
                                        ShouldRetry(rOpts.shouldRetry, RetryHeap, outcome))
                  THEN /\ rPc' = "thrown"
                       /\ rThrown' = [err |-> outcome, inv |-> rCalls']
                       /\ UNCHANGED <<rSleep, rSleeps, rStreak>>
                  ELSE /\ rPc' = "sleeping"
                       /\ \E now \in NowSamples, rnd \in RandomSamples :
                             rSleep' = SleepFor(RetryHeap[outcome], now, rnd, rCurrentDelay)
                       /\ rSleeps' = rSleeps + 1
                       /\ rStreak' = IF rSleep'.explicit THEN 0 ELSE rStreak + 1
                       /\ UNCHANGED rThrown
    /\ UNCHANGED <<rOpts, rCurrentDelay, rTracked, rCancels>>

\* The wake-up with the tracker told of Retry-After waits only.
RetryWake_ExplicitOnly ==
    /\ rPc = "sleeping"
    /\ rTracked' = IF rOpts.hasTracker /\ rSleep.explicit
                   THEN [n |-> rTracked.n + 1, last |-> rSleep.ms]
                   ELSE rTracked
    /\ rCurrentDelay' = NextDelay(rSleep, rCurrentDelay, rOpts)
    /\ rPc' = "loop"
    /\ UNCHANGED <<rOpts, rAttempt, rCalls, rFirstSuccess, rResult, rErr, rErrInv,
                   rThrown, rSleep, rSleeps, rStreak, rCancels>>

\* The delay has passed: the tracker is told, the backoff progresses, the loop goes on.
RetryWake ==
    /\ rPc = "sleeping"
    /\ rTracked' = IF rOpts.hasTracker
                   THEN [n |-> rTracked.n + 1, last |-> rSleep.ms]
                   ELSE rTracked
    /\ rCurrentDelay' = NextDelay(rSleep, rCurrentDelay, rOpts)
    /\ rPc' = "loop"
    /\ UNCHANGED <<rOpts, rAttempt, rCalls, rFirstSuccess, rResult, rErr, rErrInv,
                   rThrown, rSleep, rSleeps, rStreak, rCancels>>

\* The loop condition fails: throw new Error('Retry attempts exhausted').
RetryExhausted ==
    /\ rPc = "loop"
    /\ rAttempt >= rOpts.maxAttempts
    /\ rPc' = "thrown"
    /\ rThrown' = NoThrow
    /\ UNCHANGED <<rOpts, rAttempt, rCurrentDelay, rCalls, rFirstSuccess, rResult,
                   rErr, rErrInv, rSleep, rSleeps, rStreak, rTracked, rCancels>>

\* The caller cancels the call while the engine runs.  retryWithBackoff takes
\* no cancellation token and delay() is a bare setTimeout: nothing of the
\* engine changes.
RetryCancel ==
    /\ rPc \in {"loop", "sleeping"}
    /\ rCalls > 0
    /\ rCancels < MaxCancels
    /\ rCancels' = rCancels + 1
    /\ UNCHANGED <<rOpts, rPc, rAttempt, rCurrentDelay, rCalls, rFirstSuccess, rResult,
                   rErr, rErrInv, rThrown, rSleep, rSleeps, rStreak, rTracked>>

-----------------------------------------------------------------------------
(* The traversal of collectErrorDetails as a process, on a bounded graph.  *)

\* Number of error objects in a graph.
ErrNodes == 3

\* The nested errors of an object in the model: none, one of its three
\* properties pointing at any object of the graph (itself included), or its
\* cause and its error pointing at two different objects.
ErrLinkChoices ==
    {<<"none", 0>>} \cup ({"cause", "originalError", "error"} \X (1..ErrNodes))
    \cup {<<"cause+error", p[1], p[2]>> :
             p \in {q \in (1..ErrNodes) \X (1..ErrNodes) : q[1] # q[2]}}

LinkTo(link, field) ==
    IF link[1] = field THEN link[2]
    ELSE IF link[1] = "cause+error" /\ field = "cause" THEN link[2]
    ELSE IF link[1] = "cause+error" /\ field = "error" THEN link[3]
    ELSE 0

PlainError(link) ==
    ErrObj("Bad Request", "eacces", LinkTo(link, "cause"),
           LinkTo(link, "originalError"), LinkTo(link, "error"))

\* What makes one object of the graph transient: a code in lower case, a phrase
\* in mixed case, a message only the regexes match, a stream interruption
\* error, or a string thrown in place of an error.
ErrMarkers == {"code", "phrase", "regex", "stream", "string"}

MarkedError(mkind, link) ==
    CASE mkind = "code" ->
           ErrObj("Bad Request", "econnreset", LinkTo(link, "cause"),
                  LinkTo(link, "originalError"), LinkTo(link, "error"))
      [] mkind = "phrase" ->
           ErrObj("Socket Hang Up", "", LinkTo(link, "cause"),
                  LinkTo(link, "originalError"), LinkTo(link, "error"))
      [] mkind = "regex" ->
           ErrObj("TCP connection was reset", "", LinkTo(link, "cause"),
                  LinkTo(link, "originalError"), LinkTo(link, "error"))
      [] mkind = "stream" ->
           createStreamInterruptionError("stream interrupted", LinkTo(link, "cause"))
      [] mkind = "string" -> StrVal("fetch failed")

ErrGraph(links, mpos, mkind) ==
    [i \in 1..ErrNodes |->
        IF i = mpos THEN MarkedError(mkind, links[i]) ELSE PlainError(links[i])]

ErrInit ==
    /\ \E links \in [1..ErrNodes -> ErrLinkChoices],
          mpos \in {0, 1, ErrNodes}, mkind \in ErrMarkers :
            eHeap = ErrGraph(links, mpos, mkind)
    /\ eRoot = 1
    /\ eSt = CollectStart(1)
    /\ ePc = "walk"
    /\ eVisits = [i \in 1..ErrNodes |-> 0]
    /\ eResult = FALSE

ErrIdle ==
    /\ eHeap = <<>>
    /\ eRoot = 0
    /\ eSt = CollectStart(0)
    /\ ePc = "idle"
    /\ eVisits = <<>>
    /\ eResult = FALSE

\* Whether a pass of the loop expands (reads the properties of) its object.
Expands(heap, st) ==
    LET current == Last(st.stack)
    IN  current # 0 /\ heap[current].kind = "obj" /\ current \notin st.visited

\* One pass of the while loop of collectErrorDetails.
ErrStep ==
    /\ ePc = "walk"
    /\ eSt.stack # <<>>
    /\ eSt' = CollectStep(eHeap, eSt)
    /\ eVisits' = IF Expands(eHeap, eSt)
                  THEN [eVisits EXCEPT ![Last(eSt.stack)] = @ + 1]
                  ELSE eVisits
    /\ UNCHANGED <<eHeap, eRoot, ePc, eResult>>

\* The stack is empty: isNetworkTransientError tests what was collected.
ErrFinish ==
    /\ ePc = "walk"
    /\ eSt.stack = <<>>
    /\ ePc' = "done"
    /\ eResult' = ClassifyDetails(eSt)
    /\ UNCHANGED <<eHeap, eRoot, eSt, eVisits>>

-----------------------------------------------------------------------------
(* Tool call ids (AnthropicProvider).  A string is the sequence of its      *)
(* characters; the three prefixes are written once.                        *)

TOOLU == <<"t", "o", "o", "l", "u", "_">>
HIST_TOOL == <<"h", "i", "s", "t", "_", "t", "o", "o", "l", "_">>
CALL == <<"c", "a", "l", "l", "_">>

\* String.prototype.startsWith and String.prototype.substring(n).
StartsWith(s, p) == Len(s) >= Len(p) /\ SubSeq(s, 1, Len(p)) = p
Substring(s, n) == SubSeq(s, n + 1, Len(s))

\* A variant that returns an OpenAI id as it is.
normalizeToAnthropicToolId_KeepCall(id) ==
    IF StartsWith(id, TOOLU) \/ StartsWith(id, CALL) THEN id
    ELSE IF StartsWith(id, HIST_TOOL) THEN TOOLU \o Substring(id, Len(HIST_TOOL))
    ELSE TOOLU \o id

normalizeToAnthropicToolId(id) ==
    IF StartsWith(id, TOOLU) THEN id
    ELSE IF StartsWith(id, HIST_TOOL) THEN TOOLU \o Substring(id, Len(HIST_TOOL))
    ELSE IF StartsWith(id, CALL) THEN TOOLU \o Substring(id, Len(CALL))
    ELSE TOOLU \o id

normalizeToHistoryToolId(id) ==
    IF StartsWith(id, HIST_TOOL) THEN id
    ELSE IF StartsWith(id, TOOLU) THEN HIST_TOOL \o Substring(id, Len(TOOLU))
    ELSE IF StartsWith(id, CALL) THEN HIST_TOOL \o Substring(id, Len(CALL))
    ELSE HIST_TOOL \o id

-----------------------------------------------------------------------------
(* Conversion of the history to Anthropic messages                         *)
(* (generateChatCompletionWithOptions, up to the request).  A text is the  *)
(* sequence of its non-empty pieces, so that joining is concatenation.     *)

\* History blocks.  id is ToolCallBlock.id or ToolResponseBlock.callId,
\* text is TextBlock.text or the serialized ToolResponseBlock.result.
TextBlock(text) == [type |-> "text", id |-> <<>>, text |-> text]
ToolCallBlock(id) == [type |-> "tool_call", id |-> id, text |-> <<>>]
ToolResponseBlock(callId, result) == [type |-> "tool_response", id |-> callId, text |-> result]
IContent(speaker, blocks) == [speaker |-> speaker, blocks |-> blocks]

\* Anthropic messages: content is a string (array = FALSE) or an array of blocks.
StringMessage(role, text) == [role |-> role, array |-> FALSE, text |-> text, blocks |-> <<>>]
ArrayMessage(role, blocks) == [role |-> role, array |-> TRUE, text |-> <<>>, blocks |-> blocks]
WireBlock(type, id, text) == [type |-> type, id |-> id, text |-> text]

OfType(blocks, type) ==
    LET Is(b) == b.type = type IN SelectSeq(blocks, Is)

NotOfType(blocks, type) ==
    LET IsNot(b) == b.type # type IN SelectSeq(blocks, IsNot)

RECURSIVE JoinText(_)
JoinText(blocks) ==
    IF blocks = <<>> THEN <<>> ELSE Head(blocks).text \o JoinText(Tail(blocks))

\* Only text blocks carry text in the model (no code blocks); no sample
\* text starts with white space, so trimStart changes nothing.
blocksToText(blocks) == JoinText(OfType(blocks, "text"))

\* Leading items of speaker 'tool' are skipped.
RECURSIVE StartIndex(_, _)
StartIndex(content, k) ==
    IF k <= Len(content) /\ content[k].speaker = "tool"
    THEN StartIndex(content, k + 1)
    ELSE k

FilteredContent(content) == SubSeq(content, StartIndex(content, 1), Len(content))

flushToolResults(st) ==
    IF Len(st.pending) > 0
    THEN [st EXCEPT !.messages = Append(@, ArrayMessage("user", st.pending)),
                    !.pending = <<>>]
    ELSE st

\* contentPayload = toolTextContent || serializedResult || '', then the
\* '[empty tool result]' fallback.
ToolResult(b, toolTextContent) ==
    LET payload == IF toolTextContent # <<>> THEN toolTextContent ELSE b.text
    IN WireBlock("tool_result", normalizeToAnthropicToolId(b.id),
                 IF payload = <<>> THEN <<"[empty tool result]">> ELSE payload)

ToolUse(tc) == WireBlock("tool_use", normalizeToAnthropicToolId(tc.id), <<>>)

\* One pass of the loop over filteredContent.
ConvertItem(st, c) ==
    LET toolResponseBlocks == OfType(c.blocks, "tool_response")
        nonToolResponseBlocks == NotOfType(c.blocks, "tool_response")
        toolTextContent == IF Len(toolResponseBlocks) > 0
                           THEN blocksToText(nonToolResponseBlocks) ELSE <<>>
        onlyToolResponseContent ==
            /\ Len(toolResponseBlocks) > 0
            /\ \A k \in 1..Len(nonToolResponseBlocks) :
                    nonToolResponseBlocks[k].type \in {"text", "code"}
        st1 == [st EXCEPT !.pending = @ \o
                    [k \in 1..Len(toolResponseBlocks) |->
                        ToolResult(toolResponseBlocks[k], toolTextContent)]]
        textBlocks == OfType(c.blocks, "text")
        toolCallBlocks == OfType(c.blocks, "tool_call")
        contentText == JoinText(textBlocks)
    IN  CASE c.speaker = "human" ->
                IF onlyToolResponseContent THEN flushToolResults(st1)
                ELSE [flushToolResults(st1) EXCEPT !.messages = Append(@,
                        StringMessage("user",
                            IF textBlocks = <<>> THEN <<>> ELSE textBlocks[1].text))]
          [] c.speaker = "ai" ->
                IF Len(toolCallBlocks) > 0
                THEN [flushToolResults(st1) EXCEPT !.messages = Append(@,
                        ArrayMessage("assistant",
                            (IF contentText # <<>>
                             THEN <<WireBlock("text", <<>>, contentText)>> ELSE <<>>)
                            \o [k \in 1..Len(toolCallBlocks) |-> ToolUse(toolCallBlocks[k])]))]
                ELSE [flushToolResults(st1) EXCEPT !.messages = Append(@,
                        StringMessage("assistant", contentText))]
          [] c.speaker = "tool" ->
                IF Len(toolResponseBlocks) = 0 THEN [st1 EXCEPT !.threw = TRUE] ELSE st1
          [] OTHER -> [st1 EXCEPT !.threw = TRUE]

RECURSIVE ConvertFrom(_, _, _)
ConvertFrom(st, items, k) ==
    IF st.threw \/ k > Len(items) THEN st
    ELSE ConvertFrom(ConvertItem(st, items[k]), items, k + 1)

\* The messages after the loop and the final flush.
ConvertedMessages(content) ==
    LET st == ConvertFrom([messages |-> <<>>, pending |-> <<>>, threw |-> FALSE],
                          FilteredContent(content), 1)
    IN IF st.threw THEN st ELSE flushToolResults(st)


\* Ids of the blocks of one type in the array messages of one role.
BlockIds(messages, role, type) ==
    UNION {{messages[m].blocks[k].id :
                k \in {j \in 1..Len(messages[m].blocks) : messages[m].blocks[j].type = type}} :
           m \in {i \in 1..Len(messages) : messages[i].role = role /\ messages[i].array}}

\* A variant that finds no orphan.
orphanedResults_None(messages) == {}

orphanedResults(messages) ==
    BlockIds(messages, "user", "tool_result") \ BlockIds(messages, "assistant", "tool_use")

\* Orphaned tool_result blocks are filtered out of the user messages, and a
\* user message left without a block is removed.
PruneOrphans(messages) ==
    LET orphaned == orphanedResults(messages)
        Keep(b) == b.type # "tool_result" \/ b.id \notin orphaned
        Filtered(msg) == IF msg.role = "user" /\ msg.array
                         THEN [msg EXCEPT !.blocks = SelectSeq(@, Keep)]
                         ELSE msg
        Stays(msg) == ~(msg.role = "user" /\ msg.array /\ msg.blocks = <<>>)
    IN IF orphaned = {} THEN messages
       ELSE SelectSeq([m \in 1..Len(messages) |-> Filtered(messages[m])], Stays)

\* A variant that sends an empty list as it is.
WithPlaceholders_NoHello(messages) ==
    IF Len(messages) > 0 /\ messages[1].role # "user"
    THEN <<StringMessage("user", <<"Continue the conversation">>)>> \o messages
    ELSE messages

\* A variant that leaves an assistant message first.
WithPlaceholders_NoContinue(messages) ==
    IF Len(messages) = 0 THEN <<StringMessage("user", <<"Hello">>)>>
    ELSE messages

\* The first message must be from the user, and there must be a message.
WithPlaceholders(messages) ==
    IF Len(messages) > 0 /\ messages[1].role # "user"
    THEN <<StringMessage("user", <<"Continue the conversation">>)>> \o messages
    ELSE IF Len(messages) = 0 THEN <<StringMessage("user", <<"Hello">>)>>
    ELSE messages

\* What the call sends, or that it threw during the conversion.
AnthropicMessages(content) ==
    LET st == ConvertedMessages(content)
    IN IF st.threw THEN [threw |-> TRUE, messages |-> <<>>]
       ELSE [threw |-> FALSE, messages |-> WithPlaceholders(PruneOrphans(st.messages))]

\* Longest history.
MaxHistory == 3

\* Sample tool call ids: two history ids and an OpenAI id.
ToolIdSamples == <<HIST_TOOL \o <<"a">>, CALL \o <<"a">>, HIST_TOOL \o <<"b">>>>

IdPairs == {p \in (1..Len(ToolIdSamples)) \X (1..Len(ToolIdSamples)) : p[1] < p[2]}

HistoryItems ==
    {IContent("human", <<TextBlock(<<"hi">>)>>), IContent("ai", <<TextBlock(<<"hi">>)>>),
     IContent("tool", <<TextBlock(<<"hi">>)>>)}
    \cup {IContent("human", <<ToolResponseBlock(ToolIdSamples[i], <<"ok">>)>>) :
            i \in 1..Len(ToolIdSamples)}
    \cup {IContent("tool", <<ToolResponseBlock(ToolIdSamples[i], <<"ok">>)>>) :
            i \in 1..Len(ToolIdSamples)}
    \cup {IContent("ai", <<ToolCallBlock(ToolIdSamples[i])>>) : i \in 1..Len(ToolIdSamples)}
    \cup {IContent("ai", <<TextBlock(<<"hi">>), ToolCallBlock(ToolIdSamples[p[1]]),
                           ToolCallBlock(ToolIdSamples[p[2]])>>) : p \in IdPairs}
    \cup {IContent("tool", <<ToolResponseBlock(ToolIdSamples[p[1]], <<>>),
                             ToolResponseBlock(ToolIdSamples[p[2]], <<"ok">>)>>) : p \in IdPairs}

Histories == UNION {[1..n -> HistoryItems] : n \in 0..MaxHistory}

ConvInit ==
    /\ cIn \in Histories
    /\ cPc = "ready"
    /\ cOut = <<>>

ConvIdle ==
    /\ cIn = <<>>
    /\ cPc = "idle"
    /\ cOut = <<>>

\* The conversion of options.contents and the sending of the request.
ConvSend ==
    /\ cPc = "ready"
    /\ ~AnthropicMessages(cIn).threw
    /\ cPc' = "sent"
    /\ cOut' = AnthropicMessages(cIn).messages
    /\ UNCHANGED cIn

\* The conversion throws ('Tool content must have a tool_response block').
ConvThrow ==
    /\ cPc = "ready"
    /\ AnthropicMessages(cIn).threw
    /\ cPc' = "threw"
    /\ UNCHANGED <<cIn, cOut>>


-----------------------------------------------------------------------------
(* The two tool-id normalizations applied to sample ids, and a call and    *)
(* its response sent with such an id.                                      *)

\* Longest body of a sample id.
MaxIdBody == 2

IdPrefixes == {<<>>, TOOLU, HIST_TOOL, CALL}

IdBodies == UNION {[1..n -> {"a", "_"}] : n \in 0..MaxIdBody}

\* Up to two prefixes, then a body.
IdSamples == {p \o q \o u : p \in IdPrefixes, q \in IdPrefixes, u \in IdBodies}

ToolIdInit ==
    /\ tId \in IdSamples
    /\ tPc = "ready"
    /\ tOut = <<>>

ToolIdIdle ==
    /\ tId = <<>>
    /\ tPc = "idle"
    /\ tOut = <<>>

\* Egress then ingress.
ToolIdEgressIngress ==
    /\ tPc = "ready"
    /\ tPc' = "history"
    /\ tOut' = <<normalizeToAnthropicToolId(tId),
                normalizeToHistoryToolId(normalizeToAnthropicToolId(tId))>>
    /\ UNCHANGED tId

\* Ingress then egress.
ToolIdIngressEgress ==
    /\ tPc = "ready"
    /\ tPc' = "anthropic"
    /\ tOut' = <<normalizeToHistoryToolId(tId),
                normalizeToAnthropicToolId(normalizeToHistoryToolId(tId))>>
    /\ UNCHANGED tId

\* A call with the id and its response are converted for the request.
ToolIdSendPair ==
    /\ tPc = "ready"
    /\ tPc' = "sent"
    /\ tOut' = AnthropicMessages(<<IContent("ai", <<ToolCallBlock(tId)>>),
                                  IContent("tool", <<ToolResponseBlock(tId, <<"ok">>)>>)>>).messages
    /\ UNCHANGED tId

-----------------------------------------------------------------------------
(* The HTTP client cache of AnthropicProvider (module-level maps).  Runtime *)
(* ids and base URLs are character sequences; a token is one of a few      *)
(* sample strings.                                                         *)

\* The value undefined of an optional string.
Undefined == <<"undefined">>

defaultRuntimeKey == <<"anthropic.runtime.unscoped">>

RECURSIVE TrimStart(_)
TrimStart(s) == IF s # <<>> /\ Head(s) = " " THEN TrimStart(Tail(s)) ELSE s

RECURSIVE TrimEnd(_)
TrimEnd(s) == IF s # <<>> /\ Last(s) = " " THEN TrimEnd(Front(s)) ELSE s

\* String.prototype.trim.
Trim(s) == TrimEnd(TrimStart(s))

\* A defined, non-empty string.
Truthy(s) == s # Undefined /\ s # <<>>

resolveRuntimeKey(options) ==
    IF Truthy(options.runtimeId) /\ Trim(options.runtimeId) # <<>>
    THEN Trim(options.runtimeId)
    ELSE IF options.metadataRuntimeId # Undefined /\ Trim(options.metadataRuntimeId) # <<>>
    THEN Trim(options.metadataRuntimeId)
    ELSE IF options.callId # Undefined /\ Trim(options.callId) # <<>>
    THEN <<"c", "a", "l", "l", ":">> \o Trim(options.callId)
    ELSE defaultRuntimeKey

\* baseURL.replace(/\/+$/, '').
RECURSIVE StripSlashes(_)
StripSlashes(s) == IF s # <<>> /\ Last(s) = "/" THEN StripSlashes(Front(s)) ELSE s

normalizeBaseURL(baseURL) ==
    IF ~Truthy(baseURL) \/ Trim(baseURL) = <<>>
    THEN <<"default-endpoint">>
    ELSE StripSlashes(baseURL)

\* The hex digest of a token: one symbol per token, different tokens have
\* different digests.
Sha256Hex(authToken) ==
    IF authToken = "sk-ant-oat01-t" THEN <<"digest-oat">> ELSE <<"digest-api">>

buildClientCacheKey(runtimeKey, baseURL, authToken) ==
    runtimeKey \o <<":", ":">> \o normalizeBaseURL(baseURL) \o <<":", ":">>
        \o (IF authToken # "" THEN Sha256Hex(authToken) ELSE <<"no-auth">>)

\* new Anthropic(clientConfig): n tells the objects apart, forRuntimeId
\* records the runtimeId of the call that made the client.
instantiateClient(n, authToken, baseURL, forRuntimeId) ==
    [n |-> n,
     baseURL |-> IF Truthy(baseURL) /\ Trim(baseURL) # <<>> THEN baseURL ELSE Undefined,
     oauth |-> authToken = "sk-ant-oat01-t",
     token |-> authToken,
     forRuntimeId |-> forRuntimeId]

NoClient == [n |-> 0, baseURL |-> Undefined, oauth |-> FALSE, token |-> "",
             forRuntimeId |-> Undefined]

\* Most getClientForCall calls in a behaviour.
MaxCalls == 2

RuntimeIdSamples == {Undefined, <<"A">>, <<"A", " ">>, <<"A", ":">>}
FallbackSamples == {<<Undefined, Undefined>>, <<<<"A">>, Undefined>>, <<Undefined, <<"A">>>>}
BaseURLSamples == {Undefined, <<"x">>, <<"x", "/">>, <<":", "x">>}
TokenSamples == {"", "sk-ant-api03-t", "sk-ant-oat01-t"}

CallOptions ==
    {[runtimeId |-> r, metadataRuntimeId |-> f[1], callId |-> f[2],
      baseURL |-> b, authToken |-> t] :
        r \in RuntimeIdSamples, f \in FallbackSamples, b \in BaseURLSamples,
        t \in TokenSamples}

ClearArgs == {Undefined, <<" ">>, <<"A">>, <<" ", "A", ":">>}

Restrict(f, S) == [x \in S |-> f[x]]

CacheInit ==
    /\ runtimeClientCache = <<>>
    /\ runtimeClientKeyIndex = <<>>
    /\ kCalls = 0
    /\ kLast = [op |-> "none", options |-> <<>>, threw |-> FALSE, client |-> NoClient,
                key |-> <<>>]

CacheIdle ==
    /\ runtimeClientCache = <<>>
    /\ runtimeClientKeyIndex = <<>>
    /\ kCalls = 0
    /\ kLast = [op |-> "idle", options |-> <<>>, threw |-> FALSE, client |-> NoClient,
                key |-> <<>>]

rememberClientKey(index, runtimeKey, cacheKey) ==
    [k \in DOMAIN index \cup {runtimeKey} |->
        IF k = runtimeKey
        THEN (IF k \in DOMAIN index THEN index[k] ELSE {}) \cup {cacheKey}
        ELSE index[k]]

getClientForCall ==
    \E options \in CallOptions :
        LET runtimeKey == resolveRuntimeKey(options)
            cacheKey == buildClientCacheKey(runtimeKey, options.baseURL, options.authToken)
            client == instantiateClient(kCalls + 1, options.authToken, options.baseURL,
                                        options.runtimeId)
        IN /\ kCalls < MaxCalls
           /\ kCalls' = kCalls + 1
           /\ IF options.authToken = ""
              THEN /\ kLast' = [op |-> "getClientForCall", options |-> options,
                                threw |-> TRUE, client |-> NoClient, key |-> <<>>]
                   /\ UNCHANGED <<runtimeClientCache, runtimeClientKeyIndex>>
              ELSE IF cacheKey \in DOMAIN runtimeClientCache
              THEN /\ kLast' = [op |-> "getClientForCall", options |-> options,
                                threw |-> FALSE, client |-> runtimeClientCache[cacheKey],
                                key |-> cacheKey]
                   /\ UNCHANGED <<runtimeClientCache, runtimeClientKeyIndex>>
              ELSE /\ runtimeClientCache' =
                        [k \in DOMAIN runtimeClientCache \cup {cacheKey} |->
                            IF k = cacheKey THEN client ELSE runtimeClientCache[k]]
                   /\ runtimeClientKeyIndex' =
                        rememberClientKey(runtimeClientKeyIndex, runtimeKey, cacheKey)
                   /\ kLast' = [op |-> "getClientForCall", options |-> options,
                                threw |-> FALSE, client |-> client, key |-> cacheKey]

\* The clearing of one runtime that deletes its index entry and leaves its
\* clients in the cache.
ClearedCache_IndexOnly(runtimeKey) ==
    IF Truthy(runtimeKey) /\ Trim(runtimeKey) # <<>>
    THEN <<runtimeClientCache,
           Restrict(runtimeClientKeyIndex,
                    DOMAIN runtimeClientKeyIndex \ {Trim(runtimeKey)})>>
    ELSE <<<<>>, <<>>>>

\* forgetRuntimeKeys(runtimeKey.trim()) for a non-blank argument, else both
\* maps are cleared.
ClearedCache(runtimeKey) ==
    IF Truthy(runtimeKey) /\ Trim(runtimeKey) # <<>>
    THEN IF Trim(runtimeKey) \in DOMAIN runtimeClientKeyIndex
         THEN <<Restrict(runtimeClientCache,
                         DOMAIN runtimeClientCache \ runtimeClientKeyIndex[Trim(runtimeKey)]),
                Restrict(runtimeClientKeyIndex,
                         DOMAIN runtimeClientKeyIndex \ {Trim(runtimeKey)})>>
         ELSE <<runtimeClientCache, runtimeClientKeyIndex>>
    ELSE <<<<>>, <<>>>>

clearClientCache ==
    \E runtimeKey \in ClearArgs :
        /\ kLast.op # "none"
        /\ runtimeClientCache' = ClearedCache(runtimeKey)[1]
        /\ runtimeClientKeyIndex' = ClearedCache(runtimeKey)[2]
        /\ kLast' = [op |-> "clearClientCache", options |-> runtimeKey, threw |-> FALSE,
                     client |-> NoClient, key |-> <<>>]
        /\ UNCHANGED kCalls

clearAuthCache ==
    /\ kLast.op # "none"
    /\ runtimeClientCache' = ClearedCache(Undefined)[1]
    /\ runtimeClientKeyIndex' = ClearedCache(Undefined)[2]
    /\ kLast' = [op |-> "clearAuthCache", options |-> <<>>, threw |-> FALSE,
                 client |-> NoClient, key |-> <<>>]
    /\ UNCHANGED kCalls

-----------------------------------------------------------------------------
(* ProviderManager: the provider map, the active provider name kept in the  *)
(* settings service, the server-tools provider and the config.             *)

ProviderNames == {"openai", "anthropic", "gemini"}

\* A reference to a provider object: the registered adapter itself
\* (wrapper = 0) or the LoggingProviderWrapper with that serial around it.
ProviderRef(p, wrapper) ==
    [name |-> p.name, isDefault |-> p.isDefault, hasClearState |-> p.hasClearState,
     wrapper |-> wrapper]

\* null.
NoProvider == [name |-> "", isDefault |-> FALSE, hasClearState |-> FALSE, wrapper |-> 0]

\* this.config: absent, or what the manager reads of it.
NoConfig == [present |-> FALSE, logging |-> FALSE, provider |-> ""]

Configs ==
    [present : {TRUE}, logging : BOOLEAN, provider : {"", "anthropic"}]

\* Most operations on the manager in a behaviour.
MaxManagerOps == 4

\* providers.has(name) and providers.get(name); the map keeps insertion order.
HasProvider(providers, name) == \E i \in 1..Len(providers) : providers[i].name = name

GetProvider(providers, name) ==
    IF HasProvider(providers, name)
    THEN providers[CHOOSE i \in 1..Len(providers) : providers[i].name = name]
    ELSE NoProvider

\* providers.set(name, ref): an existing key keeps its place.
SetProvider(providers, ref) ==
    IF HasProvider(providers, ref.name)
    THEN [i \in 1..Len(providers) |->
            IF providers[i].name = ref.name THEN ref ELSE providers[i]]
    ELSE Append(providers, ref)

hasActiveProvider(active, providers) == active # "" /\ HasProvider(providers, active)

getActiveProviderName(active) == active

PMInit ==
    /\ pmProviders = <<>>
    /\ pmActive = ""
    /\ pmServerTools = NoProvider
    /\ pmConfig \in Configs \cup {NoConfig}
    /\ pmSerial = 0
    /\ pmOps = 0
    /\ pmLast = [op |-> "new", name |-> "", isDefault |-> FALSE, threw |-> FALSE,
                 before |-> "", hadActive |-> FALSE, effects |-> <<>>,
                 returned |-> NoProvider]

PMIdle ==
    /\ pmProviders = <<>>
    /\ pmActive = ""
    /\ pmServerTools = NoProvider
    /\ pmConfig = NoConfig
    /\ pmSerial = 0
    /\ pmOps = 0
    /\ pmLast = [op |-> "idle", name |-> "", isDefault |-> FALSE, threw |-> FALSE,
                 before |-> "", hadActive |-> FALSE, effects |-> <<>>,
                 returned |-> NoProvider]

\* What the operation found: the active name and hasActiveProvider() before it.
Did(op, name, isDefault, threw, effects) ==
    [op |-> op, name |-> name, isDefault |-> isDefault, threw |-> threw,
     before |-> pmActive, hadActive |-> hasActiveProvider(pmActive, pmProviders),
     effects |-> effects, returned |-> NoProvider]

\* A variant that activates every default provider.
ActivatesOnRegister_AnyDefault(p, currentActiveProvider) == p.isDefault

ActivatesOnRegister(p, currentActiveProvider) ==
    p.isDefault /\ currentActiveProvider = ""

registerProvider ==
    \E p \in [name : ProviderNames, isDefault : BOOLEAN, hasClearState : BOOLEAN] :
        LET finalProvider == IF pmConfig.present THEN ProviderRef(p, pmSerial + 1)
                             ELSE ProviderRef(p, 0)
            currentActiveProvider == pmActive
        IN /\ pmOps < MaxManagerOps
           /\ pmOps' = pmOps + 1
           /\ pmSerial' = IF pmConfig.present THEN pmSerial + 1 ELSE pmSerial
           /\ pmProviders' = SetProvider(pmProviders, finalProvider)
           /\ pmActive' = IF ActivatesOnRegister(p, currentActiveProvider)
                          THEN p.name ELSE pmActive
           /\ pmServerTools' =
                IF p.name = "gemini"
                   /\ (pmServerTools = NoProvider \/ currentActiveProvider = "gemini")
                THEN ProviderRef(p, 0) ELSE pmServerTools
           /\ pmLast' = Did("registerProvider", p.name, p.isDefault, FALSE,
                            IF ActivatesOnRegister(p, currentActiveProvider)
                            THEN <<<<"set", p.name>>>> ELSE <<>>)
           /\ UNCHANGED pmConfig

\* 'clearState' in ref: the logging decorator exposes the optional
\* clearState() of the adapter it wraps and forwards the call to it.
ClearStateIn(ref) == ref.hasClearState

\* The rejection coming after the name was written to the settings.
ProviderNotFound_AfterWrite(name, active, serverTools) ==
    [threw |-> TRUE, active |-> name, serverTools |-> serverTools,
     effects |-> <<<<"set", name>>>>]

\* if (!this.providers.has(name)) throw new Error('Provider not found'),
\* the first statement of setActiveProvider.
ProviderNotFound(name, active, serverTools) ==
    [threw |-> TRUE, active |-> active, serverTools |-> serverTools, effects |-> <<>>]

\* The switch with the settings written before the previous provider is cleared.
SetActive_WriteFirst(name, providers, active, serverTools, config) ==
    IF ~HasProvider(providers, name)
    THEN ProviderNotFound(name, active, serverTools)
    ELSE
    LET previousProviderName == active
        switching == previousProviderName # "" /\ previousProviderName # name
        previousProvider == GetProvider(providers, previousProviderName)
        clears == /\ switching
                  /\ previousProvider # NoProvider
                  /\ previousProvider # serverTools
                  /\ ClearStateIn(previousProvider)
        logs == config.present /\ config.logging /\ switching
    IN [threw |-> FALSE,
        active |-> name,
        serverTools |->
            IF name = "gemini"
            THEN (IF serverTools = NoProvider \/ serverTools.name # "gemini"
                  THEN GetProvider(providers, name) ELSE serverTools)
            ELSE IF serverTools = NoProvider /\ HasProvider(providers, "gemini")
            THEN GetProvider(providers, "gemini")
            ELSE serverTools,
        effects |-> <<<<"set", name>>>>
                    \o (IF clears THEN <<<<"clearState", previousProviderName>>>> ELSE <<>>)
                    \o (IF logs THEN <<<<"logProviderSwitch", name>>>> ELSE <<>>)]

\* setActiveProvider(name) on a manager state: what it leaves behind.
SetActive(name, providers, active, serverTools, config) ==
    IF ~HasProvider(providers, name)
    THEN ProviderNotFound(name, active, serverTools)
    ELSE
    LET previousProviderName == active
        switching == previousProviderName # "" /\ previousProviderName # name
        previousProvider == GetProvider(providers, previousProviderName)
        clears == /\ switching
                  /\ previousProvider # NoProvider
                  /\ previousProvider # serverTools
                  /\ ClearStateIn(previousProvider)
        logs == config.present /\ config.logging /\ switching
    IN [threw |-> FALSE,
        active |-> name,
        serverTools |->
            IF name = "gemini"
            THEN (IF serverTools = NoProvider \/ serverTools.name # "gemini"
                  THEN GetProvider(providers, name) ELSE serverTools)
            ELSE IF serverTools = NoProvider /\ HasProvider(providers, "gemini")
            THEN GetProvider(providers, "gemini")
            ELSE serverTools,
        effects |-> (IF clears THEN <<<<"clearState", previousProviderName>>>> ELSE <<>>)
                    \o (IF logs THEN <<<<"logProviderSwitch", name>>>> ELSE <<>>)
                    \o <<<<"set", name>>>>]

setActiveProvider ==
    \E name \in ProviderNames :
        LET r == SetActive(name, pmProviders, pmActive, pmServerTools, pmConfig)
        IN /\ pmOps < MaxManagerOps
           /\ pmOps' = pmOps + 1
           /\ pmActive' = r.active
           /\ pmServerTools' = r.serverTools
           /\ pmLast' = Did("setActiveProvider", name, FALSE, r.threw, r.effects)
           /\ UNCHANGED <<pmProviders, pmConfig, pmSerial>>

clearActiveProvider ==
    /\ pmOps < MaxManagerOps
    /\ pmOps' = pmOps + 1
    /\ pmActive' = ""
    /\ pmLast' = Did("clearActiveProvider", "", FALSE, FALSE, <<<<"set", "">>>>)
    /\ UNCHANGED <<pmProviders, pmServerTools, pmConfig, pmSerial>>

\* The fallback without the preference for 'openai'.
ResolvedName_NoOpenAI(providers, config) ==
    IF config.present /\ config.provider # "" /\ HasProvider(providers, config.provider)
    THEN config.provider
    ELSE IF Len(providers) = 0 THEN ""
    ELSE providers[1].name

\* The name getActiveProvider settles on when none is active.
ResolvedName(providers, config) ==
    IF config.present /\ config.provider # "" /\ HasProvider(providers, config.provider)
    THEN config.provider
    ELSE IF HasProvider(providers, "openai") THEN "openai"
    ELSE IF Len(providers) = 0 THEN ""
    ELSE providers[1].name

getActiveProvider ==
    LET resolvedName == IF pmActive # "" THEN pmActive
                        ELSE ResolvedName(pmProviders, pmConfig)
        r == IF pmActive = "" /\ resolvedName # ""
             THEN SetActive(resolvedName, pmProviders, pmActive, pmServerTools, pmConfig)
             ELSE [threw |-> FALSE, active |-> pmActive, serverTools |-> pmServerTools,
                   effects |-> <<>>]
    IN /\ pmOps < MaxManagerOps
       /\ pmOps' = pmOps + 1
       /\ pmActive' = r.active
       /\ pmServerTools' = r.serverTools
       /\ pmLast' = [Did("getActiveProvider", resolvedName, FALSE,
                         r.threw \/ resolvedName = ""
                             \/ ~HasProvider(pmProviders, resolvedName),
                         r.effects)
                     EXCEPT !.returned =
                        IF r.threw \/ resolvedName = "" THEN NoProvider
                        ELSE GetProvider(pmProviders, resolvedName)]
       /\ UNCHANGED <<pmProviders, pmConfig, pmSerial>>

\* updateProviderWrapping: every provider gets a new wrapper around the
\* adapter, and a server-tools provider of the same name follows.
Rewrapped(providers, serial) ==
    [i \in 1..Len(providers) |-> [providers[i] EXCEPT !.wrapper = serial + i]]

setConfig ==
    \E config \in Configs :
        LET changed == (pmConfig.present /\ pmConfig.logging) # config.logging
        IN /\ pmOps < MaxManagerOps
           /\ pmOps' = pmOps + 1
           /\ pmConfig' = config
           /\ pmProviders' = IF changed THEN Rewrapped(pmProviders, pmSerial)
                             ELSE pmProviders
           /\ pmSerial' = IF changed THEN pmSerial + Len(pmProviders) ELSE pmSerial
           /\ pmServerTools' =
                IF changed /\ pmServerTools # NoProvider
                   /\ HasProvider(pmProviders, pmServerTools.name)
                THEN GetProvider(Rewrapped(pmProviders, pmSerial), pmServerTools.name)
                ELSE pmServerTools
           /\ pmLast' = Did("setConfig", "", FALSE, FALSE, <<>>)
           /\ UNCHANGED pmActive

-----------------------------------------------------------------------------
(* ProviderManager: the session token counters.  Token counts are integers. *)

ZeroUsage == [input |-> 0, output |-> 0, cache |-> 0, tool |-> 0, thought |-> 0,
              total |-> 0]

\* A variant that adds the components as they come.
NonNegative_Unclamped(x) == x

\* Math.max(0, x || 0) on integers.
NonNegative(x) == Max(0, x)

\* The accumulation with the components added to total as they come.
Accumulated_RawTotal(s, usage) ==
    [input |-> s.input + NonNegative(usage.input),
     output |-> s.output + NonNegative(usage.output),
     cache |-> s.cache + NonNegative(usage.cache),
     tool |-> s.tool + NonNegative(usage.tool),
     thought |-> s.thought + NonNegative(usage.thought),
     total |-> s.total + (usage.input + usage.output + usage.cache + usage.tool
                          + usage.thought)]

\* The counters after accumulateSessionTokens(providerName, usage).
Accumulated(s, usage) ==
    [input |-> s.input + NonNegative(usage.input),
     output |-> s.output + NonNegative(usage.output),
     cache |-> s.cache + NonNegative(usage.cache),
     tool |-> s.tool + NonNegative(usage.tool),
     thought |-> s.thought + NonNegative(usage.thought),
     total |-> s.total + (NonNegative(usage.input) + NonNegative(usage.output)
                          + NonNegative(usage.cache) + NonNegative(usage.tool)
                          + NonNegative(usage.thought))]

\* Most operations on the counters in a behaviour.
MaxUsageOps == 3

UsageSamples ==
    [input : {-2, 1}, output : {-1, 2}, cache : {0, 1}, tool : {-1, 3}, thought : {0}]

UsageInit ==
    /\ sessionTokenUsage = ZeroUsage
    /\ uApplied = EmptyBag
    /\ uOps = 0
    /\ uLast = [op |-> "new", before |-> ZeroUsage, result |-> ZeroUsage]

UsageIdle ==
    /\ sessionTokenUsage = ZeroUsage
    /\ uApplied = EmptyBag
    /\ uOps = 0
    /\ uLast = [op |-> "idle", before |-> ZeroUsage, result |-> ZeroUsage]

accumulateSessionTokens ==
    \E usage \in UsageSamples :
        /\ uOps < MaxUsageOps
        /\ uOps' = uOps + 1
        /\ sessionTokenUsage' = Accumulated(sessionTokenUsage, usage)
        /\ uApplied' = uApplied (+) SetToBag({usage})
        /\ uLast' = [op |-> "accumulateSessionTokens", before |-> sessionTokenUsage,
                     result |-> ZeroUsage]

resetSessionTokenUsage ==
    /\ uOps < MaxUsageOps
    /\ uOps' = uOps + 1
    /\ sessionTokenUsage' = ZeroUsage
    /\ uApplied' = EmptyBag
    /\ uLast' = [op |-> "resetSessionTokenUsage", before |-> sessionTokenUsage,
                 result |-> ZeroUsage]

\* The counters are integers, so x || 0 is x.
getSessionTokenUsage ==
    /\ uOps < MaxUsageOps
    /\ uOps' = uOps + 1
    /\ uLast' = [op |-> "getSessionTokenUsage", before |-> sessionTokenUsage,
                 result |-> sessionTokenUsage]
    /\ UNCHANGED <<sessionTokenUsage, uApplied>>

-----------------------------------------------------------------------------
(* ProfileManager.saveProfile and loadProfile over a directory of files.    *)
(* A JSON value is a number, a string, undefined or an object (a sequence  *)
(* of <<key, value>> members); a file holds the text written, a sequence   *)
(* of tokens.                                                              *)

JNum(n) == [t |-> "num", n |-> n, s |-> "", m |-> <<>>]
JStr(s) == [t |-> "str", n |-> 0, s |-> s, m |-> <<>>]
JUndefined == [t |-> "undef", n |-> 0, s |-> "", m |-> <<>>]
JObj(members) == [t |-> "obj", n |-> 0, s |-> "", m |-> members]

Token(t, v) == [t |-> t, v |-> v]

\* The decimal text of the numbers 0..9.
NumText == <<"0", "1", "2", "3", "4", "5", "6", "7", "8", "9">>

RECURSIVE JSONStringify(_)
RECURSIVE MembersText(_)

\* JSON.stringify leaves out a member whose value is undefined.
MemberText(member) ==
    IF member[2].t = "undef" THEN <<>>
    ELSE <<Token("key", member[1])>> \o JSONStringify(member[2])

MembersText(members) ==
    IF members = <<>> THEN <<>>
    ELSE MemberText(Head(members)) \o MembersText(Tail(members))

JSONStringify(v) ==
    CASE v.t = "num" -> <<Token("num", NumText[v.n + 1])>>
      [] v.t = "str" -> <<Token("str", v.s)>>
      [] OTHER -> <<Token("{", "")>> \o MembersText(v.m) \o <<Token("}", "")>>

ParseFailure == [ok |-> FALSE, v |-> JUndefined, rest |-> <<>>]

RECURSIVE ParseValue(_)
RECURSIVE ParseMembers(_, _)

ParseValue(tokens) ==
    IF tokens = <<>> THEN ParseFailure
    ELSE CASE Head(tokens).t = "num" ->
                [ok |-> TRUE,
                 v |-> JNum((CHOOSE i \in 1..Len(NumText) : NumText[i] = Head(tokens).v) - 1),
                 rest |-> Tail(tokens)]
           [] Head(tokens).t = "str" ->
                [ok |-> TRUE, v |-> JStr(Head(tokens).v), rest |-> Tail(tokens)]
           [] Head(tokens).t = "{" -> ParseMembers(Tail(tokens), <<>>)
           [] OTHER -> ParseFailure

ParseMembers(tokens, members) ==
    IF tokens = <<>> THEN ParseFailure
    ELSE CASE Head(tokens).t = "}" ->
                [ok |-> TRUE, v |-> JObj(members), rest |-> Tail(tokens)]
           [] Head(tokens).t = "key" ->
                LET r == ParseValue(Tail(tokens))
                IN IF r.ok
                   THEN ParseMembers(r.rest, Append(members, <<Head(tokens).v, r.v>>))
                   ELSE ParseFailure
           [] OTHER -> ParseFailure

\* JSON.parse: ok is FALSE for a SyntaxError.
JSONParse(tokens) ==
    LET r == ParseValue(tokens)
    IN IF r.ok /\ r.rest = <<>> THEN r ELSE ParseFailure

\* profile.key
Member(v, key) ==
    IF v.t = "obj" /\ \E i \in 1..Len(v.m) : v.m[i][1] = key
    THEN v.m[CHOOSE i \in 1..Len(v.m) : v.m[i][1] = key][2]
    ELSE JUndefined

\* !value is false.
JTruthy(v) ==
    CASE v.t = "num" -> v.n # 0
      [] v.t = "str" -> v.s # ""
      [] v.t = "obj" -> TRUE
      [] OTHER -> FALSE

Profile(version, provider, model, modelParams, ephemeralSettings) ==
    JObj(<< <<"version", JNum(version)>>, <<"provider", JStr(provider)>>,
            <<"model", JStr(model)>>, <<"modelParams", modelParams>>,
            <<"ephemeralSettings", ephemeralSettings>> >>)

ProfileSamples ==
    {Profile(version, provider, "gpt-x", modelParams,
             JObj(<< <<"base-url", JStr("https://api.example")>> >>)) :
        version \in {1, 2}, provider \in {"", "openai"},
        modelParams \in {JObj(<<>>),
                         JObj(<< <<"temperature", JNum(2)>>,
                                 <<"max_tokens", JUndefined>> >>)}}

ProfileNames == {"demo", "work"}

\* No such file.
NoFile == <<Token("ENOENT", "")>>

\* Text put into a profile file by something else.
ForeignTexts == {<<Token("junk", "")>>, <<Token("{", ""), Token("}", "")>>}

\* Most operations on the profile directory in a behaviour.
MaxProfileOps == 3

NoProfile == JUndefined

ProfileInit ==
    /\ fFiles = [n \in ProfileNames |-> NoFile]
    /\ fSaved = [n \in ProfileNames |-> NoProfile]
    /\ fOps = 0
    /\ fLast = [op |-> "new", name |-> "", ok |-> TRUE, value |-> JUndefined,
                error |-> "", named |-> FALSE]

ProfileIdle ==
    /\ fFiles = <<>>
    /\ fSaved = <<>>
    /\ fOps = 0
    /\ fLast = [op |-> "idle", name |-> "", ok |-> TRUE, value |-> JUndefined,
                error |-> "", named |-> FALSE]

saveProfile ==
    \E profileName \in ProfileNames, profile \in ProfileSamples :
        /\ fOps < MaxProfileOps
        /\ fOps' = fOps + 1
        /\ fFiles' = [fFiles EXCEPT ![profileName] = JSONStringify(profile)]
        /\ fSaved' = [fSaved EXCEPT ![profileName] = profile]
        /\ fLast' = [op |-> "saveProfile", name |-> profileName, ok |-> TRUE,
                     value |-> JUndefined, error |-> "", named |-> FALSE]

\* What loadProfile returns or throws; named tells whether the message
\* holds the profile name.
Loaded(content) ==
    LET parsed == JSONParse(content)
        profile == parsed.v
        Failure(error, named) ==
            [ok |-> FALSE, value |-> JUndefined, error |-> error, named |-> named]
    IN IF content = NoFile THEN Failure("not found", TRUE)
       ELSE IF ~parsed.ok THEN Failure("is corrupted", TRUE)
       ELSE IF \/ ~JTruthy(Member(profile, "version"))
               \/ ~JTruthy(Member(profile, "provider"))
               \/ ~JTruthy(Member(profile, "model"))
               \/ ~JTruthy(Member(profile, "modelParams"))
               \/ ~JTruthy(Member(profile, "ephemeralSettings"))
       THEN Failure("is invalid: missing required fields", TRUE)
       ELSE IF Member(profile, "version") # JNum(1)
       THEN Failure("unsupported profile version", FALSE)
       ELSE [ok |-> TRUE, value |-> profile, error |-> "", named |-> FALSE]

loadProfile ==
    \E profileName \in ProfileNames :
        /\ fOps < MaxProfileOps
        /\ fOps' = fOps + 1
        /\ fLast' = [op |-> "loadProfile", name |-> profileName]
                        @@ Loaded(fFiles[profileName])
        /\ UNCHANGED <<fFiles, fSaved>>

\* Another writer puts text into the file.
ForeignWrite ==
    \E profileName \in ProfileNames, text \in ForeignTexts :
        /\ fOps < MaxProfileOps
        /\ fOps' = fOps + 1
        /\ fFiles' = [fFiles EXCEPT ![profileName] = text]
        /\ fSaved' = [fSaved EXCEPT ![profileName] = NoProfile]
        /\ fLast' = [op |-> "write", name |-> profileName, ok |-> TRUE,
                     value |-> JUndefined, error |-> "", named |-> FALSE]

-----------------------------------------------------------------------------
(* The streaming loop of generateChatCompletionWithOptions: the provider    *)
(* emits the events of one message, one content block after the other, and *)
(* the loop body handles each event as it arrives.                         *)

StreamEvent(type, sub, id, text, usage) ==
    [type |-> type, sub |-> sub, id |-> id, text |-> text, usage |-> usage]

NoUsage == [present |-> FALSE, input_tokens |-> 0, output_tokens |-> 0]

\* currentToolCall = undefined.
NoToolCall == [present |-> FALSE, id |-> <<>>, input |-> <<>>]

\* processToolParameters: the text is parsed as JSON, and {} is the result
\* when it does not parse.  A text parses when it is an opening brace, a
\* body without braces and a closing brace; the object is told by its body.
processToolParameters(input) ==
    IF /\ Len(input) >= 2
       /\ Head(input) = "{"
       /\ Last(input) = "}"
       /\ \A i \in 2..(Len(input) - 1) : input[i] \notin {"{", "}"}
    THEN [object |-> SubSeq(input, 2, Len(input) - 1)]
    ELSE [object |-> <<>>]

TextItem(text) ==
    [kind |-> "text", text |-> text, id |-> <<>>, parameters |-> [object |-> <<>>],
     usage |-> <<0, 0, 0>>]

ToolCallItem(id, parameters) ==
    [kind |-> "tool_call", text |-> <<>>, id |-> id, parameters |-> parameters,
     usage |-> <<0, 0, 0>>]

\* promptTokens, completionTokens, totalTokens.
UsageItem(usage) ==
    [kind |-> "usage", text |-> <<>>, id |-> <<>>, parameters |-> [object |-> <<>>],
     usage |-> <<usage.input_tokens, usage.output_tokens,
                 usage.input_tokens + usage.output_tokens>>]

\* A variant that keeps the tool call after its item was yielded.
AfterToolCallYield_Kept(current) == current

\* currentToolCall = undefined after the yield.
AfterToolCallYield(current) == NoToolCall

\* The loop body: the tool call under assembly and the items yielded for
\* one event.
HandleChunk(current, chunk) ==
    CASE chunk.type = "content_block_start" ->
            [current |-> IF chunk.sub = "tool_use"
                         THEN [present |-> TRUE, id |-> chunk.id, input |-> <<>>]
                         ELSE current,
             yielded |-> <<>>]
      [] chunk.type = "content_block_delta" ->
            IF chunk.sub = "text_delta"
            THEN [current |-> current, yielded |-> <<TextItem(chunk.text)>>]
            ELSE IF chunk.sub = "input_json_delta" /\ current.present
            THEN [current |-> [current EXCEPT !.input = @ \o chunk.text],
                  yielded |-> <<>>]
            ELSE [current |-> current, yielded |-> <<>>]
      [] chunk.type = "content_block_stop" ->
            IF current.present
            THEN [current |-> AfterToolCallYield(current),
                  yielded |-> <<ToolCallItem(normalizeToHistoryToolId(current.id),
                                             processToolParameters(current.input))>>]
            ELSE [current |-> current, yielded |-> <<>>]
      [] chunk.type = "message_delta" /\ chunk.usage.present ->
            [current |-> current, yielded |-> <<UsageItem(chunk.usage)>>]
      [] OTHER -> [current |-> current, yielded |-> <<>>]

\* Most events of a stream.
MaxEvents == 7

\* What the provider may emit next: a block is opened when none is open,
\* deltas of the open block's kind and its stop follow; message_delta and
\* ping come between blocks.
NextEvents(open) ==
    CASE open = "none" ->
            {StreamEvent("content_block_start", "text", <<>>, <<>>, NoUsage),
             StreamEvent("ping", "", <<>>, <<>>, NoUsage),
             StreamEvent("message_delta", "", <<>>, <<>>, NoUsage),
             StreamEvent("message_delta", "", <<>>, <<>>,
                         [present |-> TRUE, input_tokens |-> 3, output_tokens |-> 2])}
            \cup {StreamEvent("content_block_start", "tool_use", TOOLU \o <<u>>, <<>>, NoUsage) :
                    u \in {"a", "b"}}
      [] open = "text" ->
            {StreamEvent("content_block_delta", "text_delta", <<>>, <<t>>, NoUsage) :
                t \in {"p", "q"}}
            \cup {StreamEvent("content_block_stop", "", <<>>, <<>>, NoUsage)}
      [] OTHER ->
            {StreamEvent("content_block_delta", "input_json_delta", <<>>, t, NoUsage) :
                t \in {<<"{", "x">>, <<"x">>, <<"}">>}}
            \cup {StreamEvent("content_block_stop", "", <<>>, <<>>, NoUsage)}

StreamInit ==
    /\ sEvents = <<>>
    /\ sOpen = "none"
    /\ currentToolCall = NoToolCall
    /\ sYielded = <<>>
    /\ sPc = "streaming"

StreamIdle ==
    /\ sEvents = <<>>
    /\ sOpen = "none"
    /\ currentToolCall = NoToolCall
    /\ sYielded = <<>>
    /\ sPc = "idle"

\* The provider emits an event and the loop body handles it.
StreamChunk ==
    \E chunk \in NextEvents(sOpen) :
        LET r == HandleChunk(currentToolCall, chunk)
        IN /\ sPc = "streaming"
           /\ Len(sEvents) < MaxEvents
           /\ sEvents' = Append(sEvents, chunk)
           /\ sOpen' = IF chunk.type = "content_block_start" THEN chunk.sub
                       ELSE IF chunk.type = "content_block_stop" THEN "none"
                       ELSE sOpen
           /\ currentToolCall' = r.current
           /\ sYielded' = sYielded \o r.yielded
           /\ UNCHANGED sPc

\* The stream ends and the generator returns.
StreamEnd ==
    /\ sPc = "streaming"
    /\ sPc' = "done"
    /\ UNCHANGED <<sEvents, sOpen, currentToolCall, sYielded>>

-----------------------------------------------------------------------------
(* Two generateChatCompletionWithOptions calls in flight on one             *)
(* AnthropicProvider.  A call's options, client, events, open block, tool   *)
(* call under assembly and yielded items are its own; the instance's fields *)
(* and the module-level client cache are shared.                            *)

\* The two calls.
CallIds == {1, 2}

\* Most events a call in flight receives.
MaxCallEvents == 2

\* The fields the constructor leaves on the instance.
AdapterFields ==
    [name |-> "anthropic", toolFormat |-> "anthropic",
     logger |-> "llxprt:anthropic:provider"]

\* The options of the calls in flight: the runtime differs or not, base URL
\* and token are the same.
InFlightOptions ==
    {[runtimeId |-> r, metadataRuntimeId |-> Undefined, callId |-> Undefined,
      baseURL |-> <<"x">>, authToken |-> "sk-ant-api03-t"] : r \in {<<"A">>, <<"B">>}}

\* A tool call under assembly where the instance keeps one for all calls.
ToolCallSlot_OnInstance(c) == 1

\* let currentToolCall is declared in the body of the call: each call has
\* its own.
ToolCallSlot(c) == c

\* getClientForCall(options) with a token in the options: the client
\* returned and the two maps after it.
ClientForCall(cache, index, options, n) ==
    LET runtimeKey == resolveRuntimeKey(options)
        cacheKey == buildClientCacheKey(runtimeKey, options.baseURL, options.authToken)
        client == instantiateClient(n, options.authToken, options.baseURL,
                                    options.runtimeId)
    IN  IF cacheKey \in DOMAIN cache
        THEN [client |-> cache[cacheKey], cache |-> cache, index |-> index]
        ELSE [client |-> client,
              cache |-> [k \in DOMAIN cache \cup {cacheKey} |->
                            IF k = cacheKey THEN client ELSE cache[k]],
              index |-> rememberClientKey(index, runtimeKey, cacheKey)]

ConcInit ==
    /\ gFields = AdapterFields
    /\ gOptions = [c \in CallIds |-> <<>>]
    /\ gClient = [c \in CallIds |-> NoClient]
    /\ gEvents = [c \in CallIds |-> <<>>]
    /\ gOpen = [c \in CallIds |-> "none"]
    /\ gToolCall = [c \in CallIds |-> NoToolCall]
    /\ gYielded = [c \in CallIds |-> <<>>]
    /\ gPc = [c \in CallIds |-> "new"]

ConcIdle ==
    /\ gFields = AdapterFields
    /\ gOptions = [c \in CallIds |-> <<>>]
    /\ gClient = [c \in CallIds |-> NoClient]
    /\ gEvents = [c \in CallIds |-> <<>>]
    /\ gOpen = [c \in CallIds |-> "none"]
    /\ gToolCall = [c \in CallIds |-> NoToolCall]
    /\ gYielded = [c \in CallIds |-> <<>>]
    /\ gPc = [c \in CallIds |-> "idle"]

\* The call up to the request: the client is taken from the cache or made,
\* the messages and the request body are locals of the call.
CallStart ==
    \E c \in CallIds, options \in InFlightOptions :
        LET r == ClientForCall(runtimeClientCache, runtimeClientKeyIndex, options,
                               Cardinality(DOMAIN runtimeClientCache) + 1)
        IN /\ gPc[c] = "new"
           /\ gOptions' = [gOptions EXCEPT ![c] = options]
           /\ gClient' = [gClient EXCEPT ![c] = r.client]
           /\ runtimeClientCache' = r.cache
           /\ runtimeClientKeyIndex' = r.index
           /\ gPc' = [gPc EXCEPT ![c] = "streaming"]
           /\ UNCHANGED <<gFields, gEvents, gOpen, gToolCall, gYielded>>

\* An event of one call's stream arrives and the loop body of that call
\* handles it.
CallChunk ==
    \E c \in CallIds :
        \E chunk \in NextEvents(gOpen[c]) :
            LET r == HandleChunk(gToolCall[ToolCallSlot(c)], chunk)
            IN /\ gPc[c] = "streaming"
               /\ Len(gEvents[c]) < MaxCallEvents
               /\ gEvents' = [gEvents EXCEPT ![c] = Append(@, chunk)]
               /\ gOpen' = [gOpen EXCEPT ![c] =
                               IF chunk.type = "content_block_start" THEN chunk.sub
                               ELSE IF chunk.type = "content_block_stop" THEN "none"
                               ELSE @]
               /\ gToolCall' = [gToolCall EXCEPT ![ToolCallSlot(c)] = r.current]
               /\ gYielded' = [gYielded EXCEPT ![c] = @ \o r.yielded]
               /\ UNCHANGED <<gFields, gOptions, gClient, gPc,
                              runtimeClientCache, runtimeClientKeyIndex>>

\* One call's stream ends and its generator returns.
CallEnd ==
    \E c \in CallIds :
        /\ gPc[c] = "streaming"
        /\ gPc' = [gPc EXCEPT ![c] = "done"]
        /\ UNCHANGED <<gFields, gOptions, gClient, gEvents, gOpen, gToolCall, gYielded,
                       runtimeClientCache, runtimeClientKeyIndex>>

-----------------------------------------------------------------------------
(* The request body of generateChatCompletionWithOptions, for calls made    *)
(* one after the other on one AnthropicProvider.  The instance holds        *)
(* this.globalConfig and this.providerConfig; a call brings its options.    *)

\* A parameter that is not set.
NoParam == -1

\* this.globalConfig or this.providerConfig absent.
NoGlobalConfig == [present |-> FALSE, userMemory |-> "", streaming |-> ""]

ConfigWith(userMemory, streaming) ==
    [present |-> TRUE, userMemory |-> userMemory, streaming |-> streaming]

\* Most calls on the instance.
MaxRequests == 2

\* The provider settings and the config two runtimes bring: temperature in
\* hundredths.
RequestOptions ==
    [model : {"claude-sonnet-4-5-20250929", "claude-3-opus"},
     authToken : {"sk-ant-api03-t", "sk-ant-oat01-t"},
     userMemory : {"memory-A", "memory-B"},
     settings : {[temperature |-> 17, max_tokens |-> 2048],
                 [temperature |-> 44, max_tokens |-> NoParam]},
     streaming : {"enabled", "disabled"}]

InstanceConfigs ==
    {NoGlobalConfig} \cup {ConfigWith(m, s) : m \in {"memory-A", "memory-B"},
                                              s \in {"enabled", "disabled"}}

\* getMaxTokensForModel on the sample models.
getMaxTokensForModel(modelId) ==
    CASE modelId = "claude-sonnet-4-5-20250929" -> 64000
      [] modelId = "claude-opus-4-latest" -> 32000
      [] OTHER -> 4096

\* resolveSettingsService().getProviderSettings(this.name): the settings of
\* the call in progress.
resolveSettingsService(options) == options.settings

\* getModelParams(): the parameters that are set.
getModelParams(providerSettings) ==
    [temperature |-> providerSettings.temperature,
     max_tokens |-> providerSettings.max_tokens]

\* getCoreSystemPromptAsync: the prompt for the provider and the model, and
\* the user memory after a separator when there is one.
getCoreSystemPromptAsync(userMemory, model, provider) ==
    <<"core prompt", provider, model>>
        \o (IF userMemory # "" THEN <<"---", userMemory>> ELSE <<>>)

\* this.globalConfig?.getUserMemory ? this.globalConfig.getUserMemory() : ''
UserMemoryFor(globalConfig, options) ==
    IF globalConfig.present THEN globalConfig.userMemory ELSE ""

\* this.providerConfig?.getEphemeralSettings?.()?.['streaming']
StreamingSettingFor(providerConfig, options) ==
    IF providerConfig.present THEN providerConfig.streaming ELSE ""

\* The request body built from a user memory, a streaming setting and model
\* parameters: the spread of the parameters comes after max_tokens.
RequestBody(options, messages, userMemory, streamingSetting, params) ==
    LET isOAuth == options.authToken = "sk-ant-oat01-t"
        prompt == getCoreSystemPromptAsync(userMemory, options.model, "anthropic")
    IN  [model |-> options.model,
         messages |-> IF isOAuth
                      THEN <<StringMessage("user", <<"<system>">> \o prompt
                                                   \o <<"</system>">>)>> \o messages
                      ELSE messages,
         max_tokens |-> IF params.max_tokens # NoParam THEN params.max_tokens
                        ELSE getMaxTokensForModel(options.model),
         stream |-> streamingSetting # "disabled",
         temperature |-> params.temperature,
         system |-> IF isOAuth
                    THEN <<"You are Claude Code, Anthropic's official CLI for Claude.">>
                    ELSE prompt]

\* The history every call sends.
RequestContents == <<IContent("human", <<TextBlock(<<"hi">>)>>)>>

RequestInit ==
    /\ qGlobalConfig \in InstanceConfigs
    /\ qProviderConfig \in {NoGlobalConfig, ConfigWith("", "disabled")}
    /\ qSent = <<>>
    /\ qPc = "ready"

RequestIdle ==
    /\ qGlobalConfig = NoGlobalConfig
    /\ qProviderConfig = NoGlobalConfig
    /\ qSent = <<>>
    /\ qPc = "idle"

\* One call up to client.messages.create(requestBody).
SendRequest ==
    \E options \in RequestOptions :
        /\ qPc = "ready"
        /\ Len(qSent) < MaxRequests
        /\ qSent' = Append(qSent,
              [options |-> options,
               body |-> RequestBody(options, AnthropicMessages(RequestContents).messages,
                                    UserMemoryFor(qGlobalConfig, options),
                                    StreamingSettingFor(qProviderConfig, options),
                                    getModelParams(resolveSettingsService(options)))])
        /\ UNCHANGED <<qGlobalConfig, qProviderConfig, qPc>>

\* The caller is done with the instance.
RequestsDone ==
    /\ qPc = "ready"
    /\ qPc' = "done"
    /\ UNCHANGED <<qGlobalConfig, qProviderConfig, qSent>>

-----------------------------------------------------------------------------
(* A streamed call under the retry engine: the retry-wrapped outer call     *)
(* invokes the provider call, forwards the items of its stream to the       *)
(* consumer as they are yielded, and raises a StreamInterruptionError when  *)
(* the transport fails in the body.                                         *)

\* Most events the transport delivers over all attempts of one call.
MaxOuterEvents == 4

\* The error raised for an interrupted stream, and the transport failure
\* that is its cause.
OuterHeap ==
    <<createStreamInterruptionError("stream interrupted", 2),
      ErrObj("boom", "", 0, 0, 0)>>

\* What the transport may deliver next.
TransportEvents ==
    {StreamEvent("content_block_delta", "text_delta", <<>>, <<t>>, NoUsage) :
        t \in {"part", "whole"}}
    \cup {StreamEvent("message_delta", "", <<>>, <<>>,
                      [present |-> TRUE, input_tokens |-> 3, output_tokens |-> 2])}

OuterOptions ==
    [maxAttempts : 1..MaxAttemptsBound,
     initialDelayMs : {DEFAULT_INITIAL_DELAY_MS},
     maxDelayMs : {DEFAULT_MAX_DELAY_MS},
     shouldRetry : {"default"},
     hasTracker : {FALSE}]

RECURSIVE TotalLen(_)
TotalLen(log) == IF log = <<>> THEN 0 ELSE Len(Head(log)) + TotalLen(Tail(log))

OuterInit ==
    /\ oOpts \in OuterOptions
    /\ oPc = "loop"
    /\ oAttempt = 0
    /\ oCurrentDelay = oOpts.initialDelayMs
    /\ oSleep = NoSleep
    /\ oLog = <<>>
    /\ oToolCall = NoToolCall
    /\ oReceived = <<>>
    /\ oThrown = 0

OuterIdle ==
    /\ oOpts = [maxAttempts |-> 0, initialDelayMs |-> 0, maxDelayMs |-> 0,
                shouldRetry |-> "never", hasTracker |-> FALSE]
    /\ oPc = "idle"
    /\ oAttempt = 0
    /\ oCurrentDelay = 0
    /\ oSleep = NoSleep
    /\ oLog = <<>>
    /\ oToolCall = NoToolCall
    /\ oReceived = <<>>
    /\ oThrown = 0

\* while (attempt < maxAttempts) { attempt++; ... fn(): the provider call
\* is invoked afresh, with its own locals.
OuterInvoke ==
    /\ oPc = "loop"
    /\ oAttempt < oOpts.maxAttempts
    /\ oAttempt' = oAttempt + 1
    /\ oLog' = Append(oLog, <<>>)
    /\ oToolCall' = NoToolCall
    /\ oPc' = "streaming"
    /\ UNCHANGED <<oOpts, oCurrentDelay, oSleep, oReceived, oThrown>>

\* An event arrives; the items the loop body yields for it reach the consumer.
OuterChunk ==
    \E chunk \in TransportEvents :
        LET r == HandleChunk(oToolCall, chunk)
        IN /\ oPc = "streaming"
           /\ TotalLen(oLog) < MaxOuterEvents
           /\ oLog' = [oLog EXCEPT ![Len(oLog)] = Append(@, chunk)]
           /\ oToolCall' = r.current
           /\ oReceived' = oReceived \o r.yielded
           /\ UNCHANGED <<oOpts, oPc, oAttempt, oCurrentDelay, oSleep, oThrown>>

\* The stream ends and the call returns.
OuterEnd ==
    /\ oPc = "streaming"
    /\ oPc' = "returned"
    /\ UNCHANGED <<oOpts, oAttempt, oCurrentDelay, oSleep, oLog, oToolCall, oReceived,
                   oThrown>>

\* The transport fails in the body: a StreamInterruptionError is raised and
\* the catch block of the retry engine rethrows it or starts a sleep.
OuterInterrupt ==
    /\ oPc = "streaming"
    /\ IF ExhaustedOrNoRetry(oAttempt, oOpts.maxAttempts,
                             ShouldRetry(oOpts.shouldRetry, OuterHeap, 1))
       THEN /\ oPc' = "thrown"
            /\ oThrown' = 1
            /\ UNCHANGED oSleep
       ELSE /\ oPc' = "sleeping"
            /\ \E now \in NowSamples, rnd \in RandomSamples :
                  oSleep' = SleepFor(OuterHeap[1], now, rnd, oCurrentDelay)
            /\ UNCHANGED oThrown
    /\ UNCHANGED <<oOpts, oAttempt, oCurrentDelay, oLog, oToolCall, oReceived>>

\* The delay has passed and the loop goes on.
OuterWake ==
    /\ oPc = "sleeping"
    /\ oCurrentDelay' = NextDelay(oSleep, oCurrentDelay, oOpts)
    /\ oSleep' = NoSleep
    /\ oPc' = "loop"
    /\ UNCHANGED <<oOpts, oAttempt, oLog, oToolCall, oReceived, oThrown>>

-----------------------------------------------------------------------------
(* Concurrent getClientForCall invocations on the module-level client      *)
(* cache.  An invocation whose options carry no token awaits               *)
(* this.getAuthToken() and gives way to the other invocations there; the   *)
(* rest of the body runs without an await.                                  *)

\* The options of the concurrent invocations: the token is in the options
\* or has to be awaited.
AcquireOptions ==
    {[runtimeId |-> r, metadataRuntimeId |-> Undefined, callId |-> Undefined,
      baseURL |-> <<"x">>, authToken |-> t] :
        r \in {<<"A">>, <<"B">>}, t \in {"", "sk-ant-api03-t", "sk-ant-oat01-t"}}

\* A lookup in the cache as it was when the invocation began.
CacheAtLookup_BeforeAwait(seen, cache) == seen

\* runtimeClientCache.get(cacheKey) comes after the await of the token: it
\* reads the cache as it is when the invocation resumes.
CacheAtLookup(seen, cache) == cache

\* The body of getClientForCall from the cache key on, with the token known.
GetOrInsert(seen, cache, index, options, authToken, n) ==
    LET runtimeKey == resolveRuntimeKey(options)
        cacheKey == buildClientCacheKey(runtimeKey, options.baseURL, authToken)
        client == instantiateClient(n, authToken, options.baseURL, options.runtimeId)
        read == CacheAtLookup(seen, cache)
    IN  IF cacheKey \in DOMAIN read
        THEN [key |-> cacheKey, made |-> FALSE, client |-> read[cacheKey],
              cache |-> cache, index |-> index]
        ELSE [key |-> cacheKey, made |-> TRUE, client |-> client,
              cache |-> [k \in DOMAIN cache \cup {cacheKey} |->
                            IF k = cacheKey THEN client ELSE cache[k]],
              index |-> rememberClientKey(index, runtimeKey, cacheKey)]

AcquireInit ==
    /\ aPc = [c \in CallIds |-> "new"]
    /\ aOptions = [c \in CallIds |-> <<>>]
    /\ aSeen = [c \in CallIds |-> <<>>]
    /\ aKey = [c \in CallIds |-> <<>>]
    /\ aClient = [c \in CallIds |-> NoClient]
    /\ aMade = <<>>

AcquireIdle ==
    /\ aPc = [c \in CallIds |-> "idle"]
    /\ aOptions = [c \in CallIds |-> <<>>]
    /\ aSeen = [c \in CallIds |-> <<>>]
    /\ aKey = [c \in CallIds |-> <<>>]
    /\ aClient = [c \in CallIds |-> NoClient]
    /\ aMade = <<>>

\* What an invocation does once it has the token.
AcquireFinish(c, options, authToken, seen) ==
    LET r == GetOrInsert(seen, runtimeClientCache, runtimeClientKeyIndex, options,
                         authToken, Len(aMade) + 1)
    IN /\ aPc' = [aPc EXCEPT ![c] = "done"]
       /\ aKey' = [aKey EXCEPT ![c] = r.key]
       /\ aClient' = [aClient EXCEPT ![c] = r.client]
       /\ aMade' = IF r.made THEN Append(aMade, r.key) ELSE aMade
       /\ runtimeClientCache' = r.cache
       /\ runtimeClientKeyIndex' = r.index

\* getClientForCall is called: with a token in the options it runs to its
\* return, without one it stops at await this.getAuthToken().
AcquireBegin ==
    \E c \in CallIds, options \in AcquireOptions :
        /\ aPc[c] = "new"
        /\ aOptions' = [aOptions EXCEPT ![c] = options]
        /\ aSeen' = [aSeen EXCEPT ![c] = runtimeClientCache]
        /\ IF options.authToken # ""
           THEN AcquireFinish(c, options, options.authToken, runtimeClientCache)
           ELSE /\ aPc' = [aPc EXCEPT ![c] = "awaiting"]
                /\ UNCHANGED <<aKey, aClient, aMade, runtimeClientCache,
                               runtimeClientKeyIndex>>

\* this.getAuthToken() settles with a token or with none, and the
\* invocation runs to its return or throws.
AcquireResume ==
    \E c \in CallIds, authToken \in {"", "sk-ant-api03-t", "sk-ant-oat01-t"} :
        /\ aPc[c] = "awaiting"
        /\ UNCHANGED <<aOptions, aSeen>>
        /\ IF authToken = ""
           THEN /\ aPc' = [aPc EXCEPT ![c] = "threw"]
                /\ UNCHANGED <<aKey, aClient, aMade, runtimeClientCache,
                               runtimeClientKeyIndex>>
           ELSE AcquireFinish(c, aOptions[c], authToken, aSeen[c])

-----------------------------------------------------------------------------
(* One generateChatCompletionWithOptions call from its options to           *)
(* client.messages.create(requestBody): the client of the call, the         *)
(* converted history and the request body.                                  *)

\* Longest history of the call.
MaxWireHistory == 2

WireHistories == UNION {[1..n -> HistoryItems] : n \in 0..MaxWireHistory}

\* options.resolved.authToken, and what this.getAuthToken() settles with.
WireTokens == {"", "sk-ant-api03-t", "sk-ant-oat01-t"}

\* The options RequestBody reads (options.resolved.authToken ?? '').
WireOptions(authToken) ==
    [model |-> "claude-3-opus", authToken |-> authToken, userMemory |-> "",
     settings |-> [temperature |-> 17, max_tokens |-> NoParam], streaming |-> "enabled"]

\* options.resolved.authToken || (await this.getAuthToken())
ClientToken(resolvedToken, fromAuth) ==
    IF resolvedToken # "" THEN resolvedToken ELSE fromAuth

WireInit ==
    /\ wContents \in WireHistories
    /\ wToken \in WireTokens
    /\ wPc = "ready"
    /\ wClient = NoClient
    /\ wBody = <<>>

WireIdle ==
    /\ wContents = <<>>
    /\ wToken = ""
    /\ wPc = "idle"
    /\ wClient = NoClient
    /\ wBody = <<>>

\* getClientForCall throws: no token in the options and none from
\* getAuthToken().
WireNoAuth ==
    /\ wPc = "ready"
    /\ ClientToken(wToken, "") = ""
    /\ wPc' = "threw"
    /\ UNCHANGED <<wContents, wToken, wClient, wBody>>

\* The client is there and the conversion of the history throws.
WireConvThrow ==
    \E fromAuth \in WireTokens :
        /\ wPc = "ready"
        /\ ClientToken(wToken, fromAuth) # ""
        /\ AnthropicMessages(wContents).threw
        /\ wPc' = "threw"
        /\ wClient' = instantiateClient(1, ClientToken(wToken, fromAuth), Undefined,
                                        Undefined)
        /\ UNCHANGED <<wContents, wToken, wBody>>

\* The call up to client.messages.create(requestBody).
WireSend ==
    \E fromAuth \in WireTokens :
        /\ wPc = "ready"
        /\ ClientToken(wToken, fromAuth) # ""
        /\ ~AnthropicMessages(wContents).threw
        /\ wPc' = "sent"
        /\ wClient' = instantiateClient(1, ClientToken(wToken, fromAuth), Undefined,
                                        Undefined)
        /\ wBody' = RequestBody(WireOptions(wToken), AnthropicMessages(wContents).messages,
                                UserMemoryFor(NoGlobalConfig, WireOptions(wToken)),
                                StreamingSettingFor(NoGlobalConfig, WireOptions(wToken)),
                                getModelParams(resolveSettingsService(WireOptions(wToken))))
        /\ UNCHANGED <<wContents, wToken>>

-----------------------------------------------------------------------------
(* TemplateEngine.processTemplate.  A template is the sequence of its      *)
(* characters; a name without braces or blanks may stand as one symbol.     *)

OPEN == <<"{", "{">>
CLOSE == <<"}", "}">>

\* s.indexOf(pattern, from), positions counted from 0; -1 when not found.
RECURSIVE IndexOf(_, _, _)
IndexOf(s, pattern, from) ==
    IF from + Len(pattern) > Len(s) THEN -1
    ELSE IF SubSeq(s, from + 1, from + Len(pattern)) = pattern THEN from
    ELSE IndexOf(s, pattern, from + 1)

\* s.includes(pattern) and s.substring(from, to).
Includes(s, pattern) == IndexOf(s, pattern, 0) # -1
SubstringTo(s, from, to) == SubSeq(s, from + 1, to)

\* The properties every object inherits from Object.prototype (one of them).
ObjectPrototype ==
    (<<"toString">> :> <<"function toString() { [native code] }">>)

\* variableName in vars: own and inherited properties of the object.
InVars(vars, variableName) ==
    variableName \in DOMAIN vars \/ variableName \in DOMAIN ObjectPrototype

\* vars[variableName] for a name that is in vars.
VarValue(vars, variableName) ==
    IF variableName \in DOMAIN vars THEN vars[variableName]
    ELSE ObjectPrototype[variableName]

\* The while loop of processTemplate from currentPosition on.
RECURSIVE ProcessFrom(_, _, _, _)
ProcessFrom(content, vars, currentPosition, result) ==
    IF currentPosition >= Len(content) THEN result
    ELSE
    LET openBracketPos == IndexOf(content, OPEN, currentPosition)
        closeBracketPos == IndexOf(content, CLOSE, openBracketPos + 2)
        before == result \o SubstringTo(content, currentPosition, openBracketPos)
        variableName == Trim(SubstringTo(content, openBracketPos + 2, closeBracketPos))
    IN  IF openBracketPos = -1
        THEN result \o SubstringTo(content, currentPosition, Len(content))
        ELSE IF closeBracketPos = -1
        THEN before \o SubstringTo(content, openBracketPos, Len(content))
        ELSE IF variableName = <<>>
        THEN ProcessFrom(content, vars, closeBracketPos + 2,
                         before \o SubstringTo(content, openBracketPos, closeBracketPos + 2))
        ELSE IF Includes(variableName, OPEN) \/ Includes(variableName, CLOSE)
        THEN ProcessFrom(content, vars, openBracketPos + 2, before \o OPEN)
        ELSE ProcessFrom(content, vars, closeBracketPos + 2,
                         before \o (IF InVars(vars, variableName)
                                    THEN VarValue(vars, variableName) ELSE <<>>))

processTemplate(content, vars) == ProcessFrom(content, vars, 0, <<>>)

\* Most pieces of a sample template.
MaxTemplate == 6

\* The pieces sample templates are made of.
TemplatePieces == <<OPEN, CLOSE, <<"a">>, <<"toString">>>>

RECURSIVE Flatten(_)
Flatten(pieces) ==
    IF pieces = <<>> THEN <<>> ELSE TemplatePieces[Head(pieces)] \o Flatten(Tail(pieces))

TemplateSamples ==
    {Flatten(p) : p \in UNION {[1..n -> 1..Len(TemplatePieces)] : n \in 0..MaxTemplate}}

\* The variable maps: {} and {a: 'v'}.
VariableMaps == {<<>>, (<<"a">> :> <<"v">>)}

TemplateInit ==
    /\ mContent \in TemplateSamples
    /\ mVars \in VariableMaps
    /\ mPc = "ready"
    /\ mResult = <<>>

TemplateIdle ==
    /\ mContent = <<>>
    /\ mVars = <<>>
    /\ mPc = "idle"
    /\ mResult = <<>>

\* processTemplate(content, variables) returns.
ProcessTemplate ==
    /\ mPc = "ready"
    /\ mPc' = "done"
    /\ mResult' = processTemplate(mContent, mVars)
    /\ UNCHANGED <<mContent, mVars>>

-----------------------------------------------------------------------------
(* TaskToolInvocation.execute: the launch of a subagent, its run and its    *)
(* teardown, with the abort signal firing at any of the awaits.            *)

\* What one execute() is given: whether the scope has a cancel function and a
\* runInteractive function, normalized.interactive, and whether updateOutput
\* was passed.
TaskInputs ==
    [hasCancel : BOOLEAN, hasRunInteractive : BOOLEAN,
     interactive : {"undefined", "true", "false"}, hasUpdateOutput : BOOLEAN]

NoTaskInput ==
    [hasCancel |-> FALSE, hasRunInteractive |-> FALSE, interactive |-> "undefined",
     hasUpdateOutput |-> FALSE]

\* abortHandler: the first call sets the flag and cancels the scope when it
\* has a cancel function (an error of cancel is logged and swallowed); the
\* later calls return at once.
abortHandler(aborted, cancels, hasCancel) ==
    IF aborted THEN [aborted |-> TRUE, cancels |-> cancels]
    ELSE [aborted |-> TRUE, cancels |-> IF hasCancel THEN cancels + 1 ELSE cancels]

\* The method of the scope that execute awaits.
RunMethod(input) ==
    LET shouldRunInteractive == input.interactive # "false"
    IN  IF shouldRunInteractive /\ input.hasRunInteractive
        THEN "runInteractive" ELSE "runNonInteractive"

TaskInit ==
    /\ tkInput \in TaskInputs
    /\ tkSignal \in BOOLEAN
    /\ tkPc = "entry"
    /\ tkOrchestrators = 0
    /\ tkLaunches = 0
    /\ tkLaunched = FALSE
    /\ tkListener = FALSE
    /\ tkAborted = FALSE
    /\ tkCancels = 0
    /\ tkDisposes = 0
    /\ tkRun = "none"
    /\ tkResult = "none"
    /\ tkAbortAt = IF tkSignal THEN "entry" ELSE "none"

TaskIdle ==
    /\ tkInput = NoTaskInput
    /\ tkSignal = FALSE
    /\ tkPc = "idle"
    /\ tkOrchestrators = 0
    /\ tkLaunches = 0
    /\ tkLaunched = FALSE
    /\ tkListener = FALSE
    /\ tkAborted = FALSE
    /\ tkCancels = 0
    /\ tkDisposes = 0
    /\ tkRun = "none"
    /\ tkResult = "none"
    /\ tkAbortAt = "none"

\* execute() up to its first await: the early return on an aborted signal,
\* createOrchestrator() (which may throw) and the call of launch().
TaskBegin ==
    /\ tkPc = "entry"
    /\ IF tkSignal
       THEN /\ tkPc' = "returned"
            /\ tkResult' = "cancelled"
            /\ UNCHANGED <<tkOrchestrators, tkLaunches>>
       ELSE \E created \in BOOLEAN :
               /\ tkOrchestrators' = tkOrchestrators + 1
               /\ IF created
                  THEN /\ tkPc' = "launching"
                       /\ tkLaunches' = tkLaunches + 1
                       /\ UNCHANGED tkResult
                  ELSE /\ tkPc' = "returned"
                       /\ tkResult' = "error"
                       /\ UNCHANGED tkLaunches
    /\ UNCHANGED <<tkInput, tkSignal, tkLaunched, tkListener, tkAborted, tkCancels,
                   tkDisposes, tkRun, tkAbortAt>>

\* The signal aborts while execute() awaits: the listener, when registered,
\* runs abortHandler.
TaskAbort ==
    /\ tkPc \in {"launching", "running", "disposing"}
    /\ ~tkSignal
    /\ tkSignal' = TRUE
    /\ tkAbortAt' = tkPc
    /\ LET h == abortHandler(tkAborted, tkCancels, tkInput.hasCancel)
       IN  IF tkListener
           THEN tkAborted' = h.aborted /\ tkCancels' = h.cancels
           ELSE UNCHANGED <<tkAborted, tkCancels>>
    /\ UNCHANGED <<tkInput, tkPc, tkOrchestrators, tkLaunches, tkLaunched, tkListener,
                   tkDisposes, tkRun, tkResult>>

\* launch() settles: a rejection returns an error result; otherwise the
\* listener is registered, abortHandler runs at once on a signal that aborted
\* meanwhile, and the run of the scope is awaited.
TaskLaunchSettles ==
    /\ tkPc = "launching"
    /\ \E launched \in BOOLEAN :
          IF launched
          THEN LET h == abortHandler(tkAborted, tkCancels, tkInput.hasCancel)
               IN /\ tkLaunched' = TRUE
                  /\ tkListener' = TRUE
                  /\ IF tkSignal
                     THEN tkAborted' = h.aborted /\ tkCancels' = h.cancels
                     ELSE UNCHANGED <<tkAborted, tkCancels>>
                  /\ tkRun' = RunMethod(tkInput)
                  /\ tkPc' = "running"
                  /\ UNCHANGED tkResult
          ELSE /\ tkPc' = "returned"
               /\ tkResult' = "error"
               /\ UNCHANGED <<tkLaunched, tkListener, tkAborted, tkCancels, tkRun>>
    /\ UNCHANGED <<tkInput, tkSignal, tkOrchestrators, tkLaunches, tkDisposes, tkAbortAt>>

\* The result execute() has in hand when it calls teardown(): the catch block
\* builds an error result whatever the flag says; a run that resolved gives a
\* cancelled result when the flag is set and the success result otherwise.
ResultOfRun(resolved, aborted) ==
    IF ~resolved THEN "error"
    ELSE IF aborted THEN "cancelled"
    ELSE "success"

\* The run settles and teardown() begins: the listener is removed and
\* dispose() is called and awaited.
TaskRunSettles ==
    /\ tkPc = "running"
    /\ \E resolved \in BOOLEAN :
          tkResult' = ResultOfRun(resolved, tkAborted)
    /\ tkListener' = FALSE
    /\ tkDisposes' = tkDisposes + 1
    /\ tkPc' = "disposing"
    /\ UNCHANGED <<tkInput, tkSignal, tkOrchestrators, tkLaunches, tkLaunched, tkAborted,
                   tkCancels, tkRun, tkAbortAt>>

\* dispose() settles (its rejection is swallowed) and execute() returns the
\* result it had built.
TaskReturn ==
    /\ tkPc = "disposing"
    /\ tkPc' = "returned"
    /\ UNCHANGED <<tkInput, tkSignal, tkOrchestrators, tkLaunches, tkLaunched, tkListener,
                   tkAborted, tkCancels, tkDisposes, tkRun, tkResult, tkAbortAt>>

-----------------------------------------------------------------------------
(* runNonInteractive: the loop of model requests and tool executions under *)
(* the session turn limit.                                                 *)

\* Most turns of a session without a cap, and most tool calls the model
\* requests in one turn.
MaxTurns == 3
MaxToolCalls == 2

\* config.getMaxSessionTurns()
MaxSessionTurnsSamples == {-1, 0, 1, 2}

\* toolResponse.responseParts of one executeToolCall: absent, or two parts
\* that name the call they answer (its turn and its position in the turn).
ResponsePartsChoices(call) ==
    {<<>>, <<[call |-> call, n |-> 1], [call |-> call, n |-> 2]>>}

\* The limit test with the turn that reaches the limit refused already.
TurnLimitExceeded_AtLimit(turnCount, maxSessionTurns) ==
    maxSessionTurns >= 0 /\ turnCount >= maxSessionTurns

\* config.getMaxSessionTurns() >= 0 && turnCount > config.getMaxSessionTurns()
TurnLimitExceeded(turnCount, maxSessionTurns) ==
    maxSessionTurns >= 0 /\ turnCount > maxSessionTurns

NonIntInit ==
    /\ nMax \in MaxSessionTurnsSamples
    /\ nPc = "loop"
    /\ nTurn = 0
    /\ nMessage = <<[call |-> <<0, 0>>, n |-> 1]>>
    /\ nRequests = <<>>
    /\ nCalls = <<>>
    /\ nParts = <<>>
    /\ nNext = 1
    /\ nError = ""
    /\ nTurns = <<>>

NonIntIdle ==
    /\ nMax = 0
    /\ nPc = "idle"
    /\ nTurn = 0
    /\ nMessage = <<>>
    /\ nRequests = <<>>
    /\ nCalls = <<>>
    /\ nParts = <<>>
    /\ nNext = 1
    /\ nError = ""
    /\ nTurns = <<>>

\* The head of the while loop: the turn is counted, the limit is tested, and
\* the current message is sent to the model.
NonIntTurn ==
    /\ nPc = "loop"
    /\ nTurn < MaxTurns
    /\ nTurn' = nTurn + 1
    /\ IF TurnLimitExceeded(nTurn', nMax)
       THEN /\ nPc' = "thrown"
            /\ nError' = "FatalTurnLimitedError"
            /\ UNCHANGED <<nRequests, nCalls, nTurns>>
       ELSE /\ nPc' = "streaming"
            /\ nRequests' = Append(nRequests, nMessage)
            /\ nCalls' = <<>>
            /\ nTurns' = Append(nTurns, [calls |-> <<>>, responses |-> <<>>])
            /\ UNCHANGED nError
    /\ UNCHANGED <<nMax, nMessage, nParts, nNext>>

\* A ToolCallRequest event of the response stream: functionCalls.push(...).
NonIntToolCallRequest ==
    /\ nPc = "streaming"
    /\ Len(nCalls) < MaxToolCalls
    /\ LET call == <<nTurn, Len(nCalls) + 1>>
       IN /\ nCalls' = Append(nCalls, call)
          /\ nTurns' = [nTurns EXCEPT ![nTurn].calls = Append(@, call)]
    /\ UNCHANGED <<nMax, nPc, nTurn, nMessage, nRequests, nParts, nNext, nError>>

\* The response stream throws: the catch block reports and rethrows.
NonIntStreamError ==
    /\ nPc = "streaming"
    /\ nPc' = "thrown"
    /\ nError' = "ApiError"
    /\ UNCHANGED <<nMax, nTurn, nMessage, nRequests, nCalls, nParts, nNext, nTurns>>

\* The response stream ends: with no function call the function returns,
\* otherwise the tool loop starts on an empty toolResponseParts.
NonIntStreamEnd ==
    /\ nPc = "streaming"
    /\ IF Len(nCalls) > 0
       THEN /\ nPc' = "tools"
            /\ nParts' = <<>>
            /\ nNext' = 1
       ELSE /\ nPc' = "returned"
            /\ UNCHANGED <<nParts, nNext>>
    /\ UNCHANGED <<nMax, nTurn, nMessage, nRequests, nCalls, nError, nTurns>>

\* One pass of the tool loop: executeToolCall is awaited and its response
\* parts, when present, are pushed; after the last call the parts become the
\* current message.
NonIntExecuteTool ==
    /\ nPc = "tools"
    /\ \E responseParts \in ResponsePartsChoices(nCalls[nNext]) :
          /\ nParts' = nParts \o responseParts
          /\ nTurns' = [nTurns EXCEPT ![nTurn].responses = Append(@, responseParts)]
          /\ IF nNext = Len(nCalls)
             THEN /\ nMessage' = nParts'
                  /\ nPc' = "loop"
             ELSE UNCHANGED <<nMessage, nPc>>
    /\ nNext' = nNext + 1
    /\ UNCHANGED <<nMax, nTurn, nRequests, nCalls, nError>>

-----------------------------------------------------------------------------
(* ProfileManager.save and ProfileManager.load on a SettingsService: the   *)
(* current profile name and the imported settings of the service, and the  *)
(* profile files.                                                          *)

\* The optional methods a settings service has.
SettingsServices ==
    [hasExport : BOOLEAN, hasImport : BOOLEAN, hasSetCurrentProfileName : BOOLEAN]

\* The profile save() builds from the exported settings.
ExportedProfile ==
    Profile(1, "openai", "gpt-x", JObj(<<>>),
            JObj(<< <<"base-url", JStr("https://api.example")>> >>))

\* What a profile file holds before the calls: nothing, text that is no
\* JSON, an object without the required fields, a profile of version 1 or a
\* profile of version 2.
ProfileFileSamples ==
    {NoFile,
     <<Token("junk", "")>>,
     <<Token("{", ""), Token("}", "")>>,
     JSONStringify(ExportedProfile),
     JSONStringify(Profile(2, "openai", "gpt-x", JObj(<<>>), JObj(<<>>)))}

\* Most calls of save and load in a behaviour.
MaxSettingsOps == 2

SettingsInit ==
    /\ vService \in SettingsServices
    /\ vFiles \in [ProfileNames -> ProfileFileSamples]
    /\ vName \in {"", "demo"}
    /\ vImported = JUndefined
    /\ vToolsSet = FALSE
    /\ vOps = 0
    /\ vLast = [op |-> "new", name |-> "", threw |-> FALSE, error |-> "",
                nameBefore |-> vName, importedBefore |-> JUndefined,
                toolsSetBefore |-> FALSE]

SettingsIdle ==
    /\ vService = [hasExport |-> FALSE, hasImport |-> FALSE,
                   hasSetCurrentProfileName |-> FALSE]
    /\ vFiles = <<>>
    /\ vName = ""
    /\ vImported = JUndefined
    /\ vToolsSet = FALSE
    /\ vOps = 0
    /\ vLast = [op |-> "idle", name |-> "", threw |-> FALSE, error |-> "",
                nameBefore |-> "", importedBefore |-> JUndefined,
                toolsSetBefore |-> FALSE]

\* What a call found and how it ended.
SettingsDid(op, name, threw, error) ==
    [op |-> op, name |-> name, threw |-> threw, error |-> error,
     nameBefore |-> vName, importedBefore |-> vImported, toolsSetBefore |-> vToolsSet]

\* settingsService.setCurrentProfileName?.(profileName)
CurrentNameAfterSet(service, current, profileName) ==
    IF service.hasSetCurrentProfileName THEN profileName ELSE current

\* save(profileName, settingsService): the export, the profile built from it,
\* the current profile name, and then the write of the file, which may fail.
save ==
    \E profileName \in ProfileNames, exported \in BOOLEAN, written \in BOOLEAN :
        /\ vOps < MaxSettingsOps
        /\ vOps' = vOps + 1
        /\ IF ~vService.hasExport
           THEN /\ vLast' = SettingsDid("save", profileName, TRUE,
                                        "SettingsService does not support profile export")
                /\ UNCHANGED <<vName, vFiles>>
           ELSE IF ~exported
           THEN /\ vLast' = SettingsDid("save", profileName, TRUE, "export failed")
                /\ UNCHANGED <<vName, vFiles>>
           ELSE /\ vName' = CurrentNameAfterSet(vService, vName, profileName)
                /\ IF written
                   THEN /\ vFiles' = [vFiles EXCEPT
                                        ![profileName] = JSONStringify(ExportedProfile)]
                        /\ vLast' = SettingsDid("save", profileName, FALSE, "")
                   ELSE /\ vLast' = SettingsDid("save", profileName, TRUE, "write failed")
                        /\ UNCHANGED vFiles
        /\ UNCHANGED <<vService, vImported, vToolsSet>>

\* load(profileName, settingsService): loadProfile, the current profile name,
\* the test for importFromProfile, the import (which may reject) and the
\* three tool settings.
load ==
    \E profileName \in ProfileNames, imported \in BOOLEAN :
        LET r == Loaded(vFiles[profileName])
        IN /\ vOps < MaxSettingsOps
           /\ vOps' = vOps + 1
           /\ IF ~r.ok
              THEN /\ vLast' = SettingsDid("load", profileName, TRUE, r.error)
                   /\ UNCHANGED <<vName, vImported, vToolsSet>>
              ELSE /\ vName' = CurrentNameAfterSet(vService, vName, profileName)
                   /\ IF ~vService.hasImport
                      THEN /\ vLast' = SettingsDid("load", profileName, TRUE,
                                          "SettingsService does not support profile import")
                           /\ UNCHANGED <<vImported, vToolsSet>>
                      ELSE IF ~imported
                      THEN /\ vLast' = SettingsDid("load", profileName, TRUE,
                                                   "import failed")
                           /\ UNCHANGED <<vImported, vToolsSet>>
                      ELSE /\ vImported' = r.value
                           /\ vToolsSet' = TRUE
                           /\ vLast' = SettingsDid("load", profileName, FALSE, "")
           /\ UNCHANGED <<vService, vFiles>>

-----------------------------------------------------------------------------
(* The specifications: one per component, the others at rest.             *)

vars == <<retryVars, errVars, convVars, toolIdVars, cacheVars, pmVars, usageVars, profileVars, streamVars, concVars, requestVars, outerVars, acquireVars, wireVars, templateVars, taskVars, nonIntVars, settingsVars>>

\* Variables outside the retry engine.
notRetry == <<errVars, convVars, toolIdVars, cacheVars, pmVars, usageVars, profileVars, streamVars, concVars, requestVars, outerVars, acquireVars, wireVars, templateVars, taskVars, nonIntVars, settingsVars>>

\* Variables outside the error traversal.
notErr == <<retryVars, convVars, toolIdVars, cacheVars, pmVars, usageVars, profileVars, streamVars, concVars, requestVars, outerVars, acquireVars, wireVars, templateVars, taskVars, nonIntVars, settingsVars>>

\* Variables outside the message conversion.
notConv == <<retryVars, errVars, toolIdVars, cacheVars, pmVars, usageVars, profileVars, streamVars, concVars, requestVars, outerVars, acquireVars, wireVars, templateVars, taskVars, nonIntVars, settingsVars>>

\* Variables outside the tool id normalization.
notToolId == <<retryVars, errVars, convVars, cacheVars, pmVars, usageVars, profileVars, streamVars, concVars, requestVars, outerVars, acquireVars, wireVars, templateVars, taskVars, nonIntVars, settingsVars>>

\* Variables outside the client cache.
notCache == <<retryVars, errVars, convVars, toolIdVars, pmVars, usageVars, profileVars, streamVars, concVars, requestVars, outerVars, acquireVars, wireVars, templateVars, taskVars, nonIntVars, settingsVars>>

\* Variables outside the provider manager.
notPM == <<retryVars, errVars, convVars, toolIdVars, cacheVars, usageVars, profileVars, streamVars, concVars, requestVars, outerVars, acquireVars, wireVars, templateVars, taskVars, nonIntVars, settingsVars>>

\* Variables outside the session token counters.
notUsage == <<retryVars, errVars, convVars, toolIdVars, cacheVars, pmVars, profileVars, streamVars, concVars, requestVars, outerVars, acquireVars, wireVars, templateVars, taskVars, nonIntVars, settingsVars>>

\* Variables outside the profile manager.
notProfile == <<retryVars, errVars, convVars, toolIdVars, cacheVars, pmVars, usageVars, streamVars, concVars, requestVars, outerVars, acquireVars, wireVars, templateVars, taskVars, nonIntVars, settingsVars>>

\* Variables outside the streaming loop.
notStream == <<retryVars, errVars, convVars, toolIdVars, cacheVars, pmVars, usageVars, profileVars, concVars, requestVars, outerVars, acquireVars, wireVars, templateVars, taskVars, nonIntVars, settingsVars>>

\* Variables outside the calls in flight.
notConc == <<retryVars, errVars, convVars, toolIdVars, pmVars, usageVars, profileVars, streamVars, requestVars, outerVars, acquireVars, wireVars, templateVars, taskVars, nonIntVars, settingsVars, kCalls, kLast>>

\* Variables outside the request builder.
notRequest == <<retryVars, errVars, convVars, toolIdVars, cacheVars, pmVars, usageVars, profileVars, streamVars, concVars, outerVars, acquireVars, wireVars, templateVars, taskVars, nonIntVars, settingsVars>>

\* Variables outside the streamed call under retry.
notOuter == <<retryVars, errVars, convVars, toolIdVars, cacheVars, pmVars, usageVars, profileVars, streamVars, concVars, requestVars, acquireVars, wireVars, templateVars, taskVars, nonIntVars, settingsVars>>

\* Variables outside the concurrent client lookups.
notAcquire == <<retryVars, errVars, convVars, toolIdVars, pmVars, usageVars, profileVars, streamVars, concVars, requestVars, outerVars, wireVars, templateVars, taskVars, nonIntVars, settingsVars, kCalls, kLast>>

\* Variables outside the call up to the request.
notWire == <<retryVars, errVars, convVars, toolIdVars, cacheVars, pmVars, usageVars, profileVars, streamVars, concVars, requestVars, outerVars, acquireVars, templateVars, taskVars, nonIntVars, settingsVars>>

\* Variables outside the template engine.
notTemplate == <<retryVars, errVars, convVars, toolIdVars, cacheVars, pmVars, usageVars, profileVars, streamVars, concVars, requestVars, outerVars, acquireVars, wireVars, taskVars, nonIntVars, settingsVars>>

\* Variables outside the task tool.
notTask == <<retryVars, errVars, convVars, toolIdVars, cacheVars, pmVars, usageVars, profileVars, streamVars, concVars, requestVars, outerVars, acquireVars, wireVars, templateVars, nonIntVars, settingsVars>>

\* Variables outside the non-interactive session.
notNonInt == <<retryVars, errVars, convVars, toolIdVars, cacheVars, pmVars, usageVars, profileVars, streamVars, concVars, requestVars, outerVars, acquireVars, wireVars, templateVars, taskVars, settingsVars>>

\* Variables outside the profiles of a settings service.
notSettings == <<retryVars, errVars, convVars, toolIdVars, cacheVars, pmVars, usageVars, profileVars, streamVars, concVars, requestVars, outerVars, acquireVars, wireVars, templateVars, taskVars, nonIntVars>>

RetryNext ==
    \/ RetryInvoke /\ UNCHANGED notRetry
    \/ RetryWake /\ UNCHANGED notRetry
    \/ RetryExhausted /\ UNCHANGED notRetry
    \/ RetryCancel /\ UNCHANGED notRetry

InitRetry == RetryInit /\ ErrIdle /\ ConvIdle /\ ToolIdIdle /\ CacheIdle /\ PMIdle /\ UsageIdle /\ ProfileIdle /\ StreamIdle /\ ConcIdle /\ RequestIdle /\ OuterIdle /\ AcquireIdle /\ WireIdle /\ TemplateIdle /\ TaskIdle /\ NonIntIdle /\ SettingsIdle

SpecRetry == InitRetry /\ [][RetryNext]_vars

ErrNext ==
    \/ ErrStep /\ UNCHANGED notErr
    \/ ErrFinish /\ UNCHANGED notErr

InitErr == ErrInit /\ RetryIdle /\ ConvIdle /\ ToolIdIdle /\ CacheIdle /\ PMIdle /\ UsageIdle /\ ProfileIdle /\ StreamIdle /\ ConcIdle /\ RequestIdle /\ OuterIdle /\ AcquireIdle /\ WireIdle /\ TemplateIdle /\ TaskIdle /\ NonIntIdle /\ SettingsIdle

SpecErr == InitErr /\ [][ErrNext]_vars

ConvNext ==
    \/ ConvSend /\ UNCHANGED notConv
    \/ ConvThrow /\ UNCHANGED notConv

InitConv == ConvInit /\ RetryIdle /\ ErrIdle /\ ToolIdIdle /\ CacheIdle /\ PMIdle /\ UsageIdle /\ ProfileIdle /\ StreamIdle /\ ConcIdle /\ RequestIdle /\ OuterIdle /\ AcquireIdle /\ WireIdle /\ TemplateIdle /\ TaskIdle /\ NonIntIdle /\ SettingsIdle

SpecConv == InitConv /\ [][ConvNext]_vars

ToolIdNext ==
    \/ ToolIdEgressIngress /\ UNCHANGED notToolId
    \/ ToolIdIngressEgress /\ UNCHANGED notToolId
    \/ ToolIdSendPair /\ UNCHANGED notToolId

InitToolId == ToolIdInit /\ RetryIdle /\ ErrIdle /\ ConvIdle /\ CacheIdle /\ PMIdle /\ UsageIdle /\ ProfileIdle /\ StreamIdle /\ ConcIdle /\ RequestIdle /\ OuterIdle /\ AcquireIdle /\ WireIdle /\ TemplateIdle /\ TaskIdle /\ NonIntIdle /\ SettingsIdle

SpecToolId == InitToolId /\ [][ToolIdNext]_vars

CacheNext ==
    \/ getClientForCall /\ UNCHANGED notCache
    \/ clearClientCache /\ UNCHANGED notCache
    \/ clearAuthCache /\ UNCHANGED notCache

InitCache == CacheInit /\ RetryIdle /\ ErrIdle /\ ConvIdle /\ ToolIdIdle /\ PMIdle /\ UsageIdle /\ ProfileIdle /\ StreamIdle /\ ConcIdle /\ RequestIdle /\ OuterIdle /\ AcquireIdle /\ WireIdle /\ TemplateIdle /\ TaskIdle /\ NonIntIdle /\ SettingsIdle

SpecCache == InitCache /\ [][CacheNext]_vars

PMNext ==
    \/ registerProvider /\ UNCHANGED notPM
    \/ setActiveProvider /\ UNCHANGED notPM
    \/ clearActiveProvider /\ UNCHANGED notPM
    \/ getActiveProvider /\ UNCHANGED notPM
    \/ setConfig /\ UNCHANGED notPM

InitPM == PMInit /\ RetryIdle /\ ErrIdle /\ ConvIdle /\ ToolIdIdle /\ CacheIdle /\ UsageIdle /\ ProfileIdle /\ StreamIdle /\ ConcIdle /\ RequestIdle /\ OuterIdle /\ AcquireIdle /\ WireIdle /\ TemplateIdle /\ TaskIdle /\ NonIntIdle /\ SettingsIdle

SpecPM == InitPM /\ [][PMNext]_vars

UsageNext ==
    \/ accumulateSessionTokens /\ UNCHANGED notUsage
    \/ resetSessionTokenUsage /\ UNCHANGED notUsage
    \/ getSessionTokenUsage /\ UNCHANGED notUsage

InitUsage == UsageInit /\ RetryIdle /\ ErrIdle /\ ConvIdle /\ ToolIdIdle /\ CacheIdle /\ PMIdle /\ ProfileIdle /\ StreamIdle /\ ConcIdle /\ RequestIdle /\ OuterIdle /\ AcquireIdle /\ WireIdle /\ TemplateIdle /\ TaskIdle /\ NonIntIdle /\ SettingsIdle

SpecUsage == InitUsage /\ [][UsageNext]_vars

ProfileNext ==
    \/ saveProfile /\ UNCHANGED notProfile
    \/ loadProfile /\ UNCHANGED notProfile
    \/ ForeignWrite /\ UNCHANGED notProfile

InitProfile == ProfileInit /\ RetryIdle /\ ErrIdle /\ ConvIdle /\ ToolIdIdle /\ CacheIdle /\ PMIdle /\ UsageIdle /\ StreamIdle /\ ConcIdle /\ RequestIdle /\ OuterIdle /\ AcquireIdle /\ WireIdle /\ TemplateIdle /\ TaskIdle /\ NonIntIdle /\ SettingsIdle

SpecProfile == InitProfile /\ [][ProfileNext]_vars

StreamNext ==
    \/ StreamChunk /\ UNCHANGED notStream
    \/ StreamEnd /\ UNCHANGED notStream

InitStream == StreamInit /\ RetryIdle /\ ErrIdle /\ ConvIdle /\ ToolIdIdle /\ CacheIdle /\ PMIdle /\ UsageIdle /\ ProfileIdle /\ ConcIdle /\ RequestIdle /\ OuterIdle /\ AcquireIdle /\ WireIdle /\ TemplateIdle /\ TaskIdle /\ NonIntIdle /\ SettingsIdle

SpecStream == InitStream /\ [][StreamNext]_vars

ConcNext ==
    \/ CallStart /\ UNCHANGED notConc
    \/ CallChunk /\ UNCHANGED notConc
    \/ CallEnd /\ UNCHANGED notConc

InitConc == ConcInit /\ RetryIdle /\ ErrIdle /\ ConvIdle /\ ToolIdIdle /\ CacheIdle /\ PMIdle /\ UsageIdle /\ ProfileIdle /\ StreamIdle /\ RequestIdle /\ OuterIdle /\ AcquireIdle /\ WireIdle /\ TemplateIdle /\ TaskIdle /\ NonIntIdle /\ SettingsIdle

SpecConc == InitConc /\ [][ConcNext]_vars

RequestNext ==
    \/ SendRequest /\ UNCHANGED notRequest
    \/ RequestsDone /\ UNCHANGED notRequest

InitRequest == RequestInit /\ RetryIdle /\ ErrIdle /\ ConvIdle /\ ToolIdIdle /\ CacheIdle /\ PMIdle /\ UsageIdle /\ ProfileIdle /\ StreamIdle /\ ConcIdle /\ OuterIdle /\ AcquireIdle /\ WireIdle /\ TemplateIdle /\ TaskIdle /\ NonIntIdle /\ SettingsIdle

SpecRequest == InitRequest /\ [][RequestNext]_vars

OuterNext ==
    \/ OuterInvoke /\ UNCHANGED notOuter
    \/ OuterChunk /\ UNCHANGED notOuter
    \/ OuterEnd /\ UNCHANGED notOuter
    \/ OuterInterrupt /\ UNCHANGED notOuter
    \/ OuterWake /\ UNCHANGED notOuter

InitOuter == OuterInit /\ RetryIdle /\ ErrIdle /\ ConvIdle /\ ToolIdIdle /\ CacheIdle /\ PMIdle /\ UsageIdle /\ ProfileIdle /\ StreamIdle /\ ConcIdle /\ RequestIdle /\ AcquireIdle /\ WireIdle /\ TemplateIdle /\ TaskIdle /\ NonIntIdle /\ SettingsIdle

SpecOuter == InitOuter /\ [][OuterNext]_vars

AcquireNext ==
    \/ AcquireBegin /\ UNCHANGED notAcquire
    \/ AcquireResume /\ UNCHANGED notAcquire

InitAcquire == AcquireInit /\ RetryIdle /\ ErrIdle /\ ConvIdle /\ ToolIdIdle /\ CacheIdle /\ PMIdle /\ UsageIdle /\ ProfileIdle /\ StreamIdle /\ ConcIdle /\ RequestIdle /\ OuterIdle /\ WireIdle /\ TemplateIdle /\ TaskIdle /\ NonIntIdle /\ SettingsIdle

SpecAcquire == InitAcquire /\ [][AcquireNext]_vars

WireNext ==
    \/ WireNoAuth /\ UNCHANGED notWire
    \/ WireConvThrow /\ UNCHANGED notWire
    \/ WireSend /\ UNCHANGED notWire

InitWire == WireInit /\ RetryIdle /\ ErrIdle /\ ConvIdle /\ ToolIdIdle /\ CacheIdle /\ PMIdle /\ UsageIdle /\ ProfileIdle /\ StreamIdle /\ ConcIdle /\ RequestIdle /\ OuterIdle /\ AcquireIdle /\ TemplateIdle /\ TaskIdle /\ NonIntIdle /\ SettingsIdle

SpecWire == InitWire /\ [][WireNext]_vars

TemplateNext ==
    \/ ProcessTemplate /\ UNCHANGED notTemplate

InitTemplate == TemplateInit /\ RetryIdle /\ ErrIdle /\ ConvIdle /\ ToolIdIdle /\ CacheIdle /\ PMIdle /\ UsageIdle /\ ProfileIdle /\ StreamIdle /\ ConcIdle /\ RequestIdle /\ OuterIdle /\ AcquireIdle /\ WireIdle /\ TaskIdle /\ NonIntIdle /\ SettingsIdle

SpecTemplate == InitTemplate /\ [][TemplateNext]_vars

TaskNext ==
    \/ TaskBegin /\ UNCHANGED notTask
    \/ TaskAbort /\ UNCHANGED notTask
    \/ TaskLaunchSettles /\ UNCHANGED notTask
    \/ TaskRunSettles /\ UNCHANGED notTask
    \/ TaskReturn /\ UNCHANGED notTask

InitTask == TaskInit /\ RetryIdle /\ ErrIdle /\ ConvIdle /\ ToolIdIdle /\ CacheIdle /\ PMIdle /\ UsageIdle /\ ProfileIdle /\ StreamIdle /\ ConcIdle /\ RequestIdle /\ OuterIdle /\ AcquireIdle /\ WireIdle /\ TemplateIdle /\ NonIntIdle /\ SettingsIdle

SpecTask == InitTask /\ [][TaskNext]_vars

NonIntNext ==
    \/ NonIntTurn /\ UNCHANGED notNonInt
    \/ NonIntToolCallRequest /\ UNCHANGED notNonInt
    \/ NonIntStreamError /\ UNCHANGED notNonInt
    \/ NonIntStreamEnd /\ UNCHANGED notNonInt
    \/ NonIntExecuteTool /\ UNCHANGED notNonInt

InitNonInt == NonIntInit /\ RetryIdle /\ ErrIdle /\ ConvIdle /\ ToolIdIdle /\ CacheIdle /\ PMIdle /\ UsageIdle /\ ProfileIdle /\ StreamIdle /\ ConcIdle /\ RequestIdle /\ OuterIdle /\ AcquireIdle /\ WireIdle /\ TemplateIdle /\ TaskIdle /\ SettingsIdle

SpecNonInt == InitNonInt /\ [][NonIntNext]_vars

SettingsNext ==
    \/ save /\ UNCHANGED notSettings
    \/ load /\ UNCHANGED notSettings

InitSettings == SettingsInit /\ RetryIdle /\ ErrIdle /\ ConvIdle /\ ToolIdIdle /\ CacheIdle /\ PMIdle /\ UsageIdle /\ ProfileIdle /\ StreamIdle /\ ConcIdle /\ RequestIdle /\ OuterIdle /\ AcquireIdle /\ WireIdle /\ TemplateIdle /\ TaskIdle /\ NonIntIdle

SpecSettings == InitSettings /\ [][SettingsNext]_vars

-----------------------------------------------------------------------------
(* Claims about the retry engine.                                          *)

RetryDone == rPc \in {"returned", "thrown"}

RetryableHere(e) == ShouldRetry(rOpts.shouldRetry, RetryHeap, e)

\* C1: with maxAttempts >= 1, fn is invoked at most maxAttempts times; the value
\* returned is that of the first successful invocation, after which fn is not
\* invoked again; an error that shouldRetry rejects is rethrown at once, with no
\* sleep after the invocation that threw it; when all attempts fail the error
\* rethrown is the one of the last invocation; with maxAttempts = 1 fn is invoked
\* exactly once and nothing sleeps.
C1_RetryContract ==
    rOpts.maxAttempts >= 1 =>
        /\ rCalls <= rOpts.maxAttempts
        /\ (rFirstSuccess # 0 =>
               rPc = "returned" /\ rResult = rFirstSuccess /\ rCalls = rFirstSuccess)
        /\ (rPc = "returned" => rFirstSuccess # 0)
        /\ (rPc = "thrown" =>
               /\ rThrown = [err |-> rErr, inv |-> rCalls]
               /\ rErrInv = rCalls
               /\ rSleeps = rCalls - 1
               /\ (rCalls < rOpts.maxAttempts => ~RetryableHere(rErr)))
        /\ (rErr # 0 /\ ~RetryableHere(rErr) =>
               rPc = "thrown" /\ rThrown.err = rErr /\ rSleeps = rCalls - 1)
        /\ (rOpts.maxAttempts = 1 => rSleeps = 0 /\ (RetryDone => rCalls = 1))

\* All three attempts failed with retryable errors and the last one was rethrown.
C1_Witness ==
    /\ rPc = "thrown"
    /\ rOpts.maxAttempts = 3
    /\ rCalls = 3
    /\ rSleeps = 2
    /\ RetryableHere(rErr)

HasStatus429(o) ==
    o.status = 429 \/ (o.status = 0 /\ o.response.present /\ o.response.status = 429)

RetryAfterSeconds(o) ==
    IF o.response.present /\ o.response.headers.present /\ o.response.headers.kind = "digits"
    THEN o.response.headers.n
    ELSE 0

\* C6: a retried error with status 429 and a Retry-After header of s > 0 seconds
\* is followed by a sleep of at least s * 1000 ms that is the explicit delay: no
\* backoff base and no jitter enter it.
C6_RetryAfterHonored ==
    (rPc = "sleeping" /\ HasStatus429(RetryHeap[rErr]) /\ RetryAfterSeconds(RetryHeap[rErr]) > 0)
        => /\ rSleep.ms >= RetryAfterSeconds(RetryHeap[rErr]) * 1000
           /\ rSleep.explicit
           /\ rSleep.base = 0
           /\ rSleep.jitter = 0

\* The engine sleeps after a 429 carrying Retry-After: 2, its backoff already advanced.
C6_Witness ==
    /\ rPc = "sleeping"
    /\ HasStatus429(RetryHeap[rErr])
    /\ RetryAfterSeconds(RetryHeap[rErr]) = 2
    /\ rCurrentDelay > rOpts.initialDelayMs
    /\ rSleep.ms = 2000

\* C13: once the caller has cancelled a call that is inside the retry
\* engine, the engine stops: no later step invokes fn again or starts a
\* sleep, and a second cancellation changes nothing either.
C13_CancellationStopsRetry ==
    [][rCancels > 0 => rCalls' = rCalls /\ rSleeps' = rSleeps]_vars

\* The Retry-After header of the error is a string of digits or an HTTP date.
RetryAfterParses(o) ==
    /\ o.response.present
    /\ o.response.headers.present
    /\ o.response.headers.kind \in {"digits", "httpdate"}

\* max(0, target - now) for the header: the seconds from now on, or the date.
RetryAfterWait(o, now) ==
    IF o.response.headers.kind = "digits"
    THEN Max(0, o.response.headers.n * 1000)
    ELSE Max(0, o.response.headers.n - now)

\* C15: after a retried error with status 429 whose Retry-After header
\* parses as seconds or as a date, the engine waits max(0, target - now),
\* also when that is 0, and the delay that follows the wait is
\* initialDelayMs again.
C15_EveryRetryAfterHonored ==
    (rPc = "sleeping" /\ HasStatus429(RetryHeap[rErr]) /\ RetryAfterParses(RetryHeap[rErr]))
        => /\ \E now \in NowSamples : rSleep.ms = RetryAfterWait(RetryHeap[rErr], now)
           /\ NextDelay(rSleep, rCurrentDelay, rOpts) = rOpts.initialDelayMs

\* The HTTP status of an error is 429 or a 5xx, on the error or on its response.
RetryableStatus(o) ==
    getErrorStatus(o) = 429 \/ (getErrorStatus(o) >= 500 /\ getErrorStatus(o) < 600)

\* C16: under the default predicate an error whose status, on the error or
\* on its response, is 429 or 5xx is rethrown only by the last attempt.
C16_RetryableStatusRetried ==
    (/\ rOpts.shouldRetry = "default"
     /\ rPc = "thrown"
     /\ rThrown.err # 0
     /\ RetryableStatus(RetryHeap[rThrown.err]))
        => rAttempt >= rOpts.maxAttempts

\* The HTTP status of an error is a 4xx other than 429.
ClientErrorStatus(o) ==
    getErrorStatus(o) >= 400 /\ getErrorStatus(o) < 500 /\ getErrorStatus(o) # 429

\* The error that fn threw last was rethrown at once: no sleep followed it.
RethrownAtOnce ==
    /\ rPc = "thrown"
    /\ rThrown = [err |-> rErr, inv |-> rCalls]
    /\ rSleeps = rCalls - 1

\* C17: under the default predicate an error with a 4xx status other than
\* 429 is rethrown at once, with no sleep after the invocation that threw
\* it, whatever its message.
C17_No4xxRetried ==
    (rOpts.shouldRetry = "default" /\ rErr # 0 /\ ClientErrorStatus(RetryHeap[rErr]))
        => RethrownAtOnce

\* The sleeps that have ended.
SleepsEnded == IF rPc = "sleeping" THEN rSleeps - 1 ELSE rSleeps

\* C18: a configured tracker has been called once for every sleep that has
\* ended, explicit or backoff, last with the duration of the last sleep;
\* so when the engine is done its calls equal the retries performed, none
\* when the first invocation succeeded or its error was not retried.
\* Without a tracker nothing is tracked.
C18_TrackerFollowsSleeps ==
    /\ rTracked.n = (IF rOpts.hasTracker THEN SleepsEnded ELSE 0)
    /\ (rOpts.hasTracker /\ RetryDone /\ rCalls >= 1 => rTracked.n = rCalls - 1)
    /\ (rTracked.n > 0 /\ rPc # "sleeping" => rTracked.last = rSleep.ms)

\* Scenario S1: the first invocation threw a 429 with Retry-After: 2, the
\* second returned, and the tracker was called once, with 2000.
C18_Witness ==
    /\ rOpts.hasTracker
    /\ rPc = "returned"
    /\ rCalls = 2
    /\ rSleep.explicit
    /\ rTracked = [n |-> 1, last |-> 2000]

-----------------------------------------------------------------------------
(* Claims about the transient classification.                              *)

\* The objects a set of objects points at through cause, originalError or error.
NestedOf(heap, S) ==
    {r \in DOMAIN heap : \E n \in S :
        heap[n].kind = "obj" /\ r \in {heap[n].cause, heap[n].originalError, heap[n].error}}

RECURSIVE ReachableFrom(_, _)
ReachableFrom(heap, S) ==
    LET T == S \cup NestedOf(heap, S)
    IN  IF T = S THEN S ELSE ReachableFrom(heap, T)

\* An error object whose code (in any case) is a transient code, or whose
\* message contains a transient phrase (in any case) or matches a transient regex.
IsTransientNode(o) ==
    /\ o.kind = "obj"
    /\ \/ ToUpperCase(o.code) \in TRANSIENT_ERROR_CODES
       \/ PhrasesIncluded(ToLowerCase(o.message)) \cap TRANSIENT_ERROR_PHRASES # {}
       \/ MatchesTransientRegex(o.message)

\* C5: when some error object reachable from the classified error through cause,
\* originalError or error, at any depth, has a transient code or a transient
\* message, isNetworkTransientError returns true; a stream interruption error
\* is such an object, at the root or nested.
C5_TransientChainClassified ==
    (ePc = "done" /\ \E n \in ReachableFrom(eHeap, {eRoot}) : IsTransientNode(eHeap[n]))
        => eResult = TRUE

\* A stream interruption error two links below the root, in a graph that
\* loops back to the root, was classified transient.
C5_Witness ==
    /\ ePc = "done"
    /\ eResult = TRUE
    /\ eHeap[3].code = STREAM_INTERRUPTED_ERROR_CODE
    /\ eHeap[3].cause = 1
    /\ eHeap[1].originalError = 2
    /\ eHeap[2].error = 3

-----------------------------------------------------------------------------
(* Claims about the message conversion and the tool ids.                   *)

\* Ids of the blocks of one type anywhere in a message list.
IdsSent(messages, type) ==
    {messages[p[1]].blocks[p[2]].id :
        p \in {q \in (1..Len(messages)) \X (1..MaxHistory * 3) :
                 /\ q[2] <= Len(messages[q[1]].blocks)
                 /\ messages[q[1]].blocks[q[2]].type = type}}

\* How many tool_result blocks with the id a message list holds.
ResultsSent(messages, id) ==
    Cardinality({q \in (1..Len(messages)) \X (1..MaxHistory * 3) :
                    /\ q[2] <= Len(messages[q[1]].blocks)
                    /\ messages[q[1]].blocks[q[2]].type = "tool_result"
                    /\ messages[q[1]].blocks[q[2]].id = id})

\* How many tool responses of the history, leading tool items apart, are
\* sent under the id.
ResponsesFor(content, id) ==
    LET items == FilteredContent(content)
    IN Cardinality({q \in (1..Len(items)) \X (1..3) :
                    /\ q[2] <= Len(items[q[1]].blocks)
                    /\ items[q[1]].blocks[q[2]].type = "tool_response"
                    /\ normalizeToAnthropicToolId(items[q[1]].blocks[q[2]].id) = id})

\* C2: in the message list sent, every tool_result has the id of a tool_use
\* of the same list; no user message is left without a block; and the
\* tool_result blocks whose id is the id of a tool_use are all still there.
C2_ToolResultsPaired ==
    cPc = "sent" =>
        /\ IdsSent(cOut, "tool_result") \subseteq IdsSent(cOut, "tool_use")
        /\ \A m \in 1..Len(cOut) : cOut[m].array => cOut[m].blocks # <<>>
        /\ \A id \in IdsSent(cOut, "tool_use") :
                ResultsSent(cOut, id) = ResponsesFor(cIn, id)

\* A request was sent from which an orphaned tool_result was removed, a user
\* message was dropped for it, and a paired tool_result was kept.
C2_Witness ==
    /\ cPc = "sent"
    /\ orphanedResults(ConvertedMessages(cIn).messages) # {}
    /\ Len(PruneOrphans(ConvertedMessages(cIn).messages))
            < Len(ConvertedMessages(cIn).messages)
    /\ IdsSent(cOut, "tool_result") # {}

\* C25: in the message list sent, every tool_result block comes after an
\* assistant message that holds the tool_use with the same id.
C25_ResultAfterItsCall ==
    cPc = "sent" =>
        \A m \in 1..Len(cOut) :
            \A k \in 1..Len(cOut[m].blocks) :
                cOut[m].blocks[k].type = "tool_result" =>
                    \E n \in 1..(m - 1) :
                        /\ cOut[n].role = "assistant"
                        /\ \E j \in 1..Len(cOut[n].blocks) :
                              /\ cOut[n].blocks[j].type = "tool_use"
                              /\ cOut[n].blocks[j].id = cOut[m].blocks[k].id

\* The part of an id after its prefix.
IdBody(id, prefix) == Substring(id, Len(prefix))

\* C7 as stated: both round trips return a hist_tool_ id, a toolu_ id and a
\* call_ id unchanged.
C7_RoundTripAlsoForCall ==
    /\ (tPc = "history" /\ (StartsWith(tId, HIST_TOOL) \/ StartsWith(tId, CALL))
            => tOut[2] = tId)
    /\ (tPc = "anthropic" /\ (StartsWith(tId, TOOLU) \/ StartsWith(tId, CALL))
            => tOut[2] = tId)

\* C7: egress then ingress returns a hist_tool_<u> id unchanged, ingress then
\* egress returns a toolu_<u> id unchanged; a call_<u> id is not returned but
\* carried to toolu_<u> and hist_tool_<u> with the same <u>; and a call with a
\* hist_tool_<u> id and its response are sent as tool_use and tool_result
\* with the id toolu_<u>.
C7_RoundTrip ==
    /\ (tPc = "history" /\ StartsWith(tId, HIST_TOOL)
            => tOut = <<TOOLU \o IdBody(tId, HIST_TOOL), tId>>)
    /\ (tPc = "anthropic" /\ StartsWith(tId, TOOLU)
            => tOut = <<HIST_TOOL \o IdBody(tId, TOOLU), tId>>)
    /\ (tPc = "history" /\ StartsWith(tId, CALL)
            => tOut = <<TOOLU \o IdBody(tId, CALL), HIST_TOOL \o IdBody(tId, CALL)>>)
    /\ (tPc = "anthropic" /\ StartsWith(tId, CALL)
            => tOut = <<HIST_TOOL \o IdBody(tId, CALL), TOOLU \o IdBody(tId, CALL)>>)
    /\ (tPc = "sent" /\ StartsWith(tId, HIST_TOOL)
            => /\ Len(tOut) = 3
               /\ tOut[2].blocks = <<WireBlock("tool_use", TOOLU \o IdBody(tId, HIST_TOOL), <<>>)>>
               /\ tOut[3].blocks = <<WireBlock("tool_result", TOOLU \o IdBody(tId, HIST_TOOL),
                                               <<"ok">>)>>)

\* A call_ id went through egress and ingress and came back as a hist_tool_ id.
C7_Witness ==
    /\ tPc = "history"
    /\ tId = CALL \o <<"a", "_">>
    /\ tOut = <<TOOLU \o <<"a", "_">>, HIST_TOOL \o <<"a", "_">>>>

-----------------------------------------------------------------------------
(* Claims about the client cache.                                          *)

\* C3, for runtimeIds that differ by more than surrounding white space: a
\* call with a runtimeId is never handed a client that was made for a call
\* with a different runtimeId, whatever the base URLs and the tokens of the
\* two calls.
C3_RuntimeIdsIsolateClients ==
    (/\ kLast.op = "getClientForCall"
     /\ ~kLast.threw
     /\ kLast.options.runtimeId # Undefined
     /\ kLast.client.forRuntimeId # Undefined)
        => Trim(kLast.client.forRuntimeId) = Trim(kLast.options.runtimeId)

\* The cache key of a call that carries a token.
CacheKeyOf(options) ==
    buildClientCacheKey(resolveRuntimeKey(options), options.baseURL, options.authToken)

\* C22: a clearClientCache(r) step with a non-blank r leaves no cached
\* client for a call whose runtime key is r, and every call of another
\* runtime key that was served from the cache before is served the same
\* client after it.
C22_ClearsOnlyItsRuntime ==
    [][(/\ kLast'.op = "clearClientCache"
        /\ Truthy(kLast'.options)
        /\ Trim(kLast'.options) # <<>>)
          => \A options \in CallOptions :
                options.authToken # "" =>
                    IF resolveRuntimeKey(options) = Trim(kLast'.options)
                    THEN CacheKeyOf(options) \notin DOMAIN runtimeClientCache'
                    ELSE CacheKeyOf(options) \in DOMAIN runtimeClientCache
                            => /\ CacheKeyOf(options) \in DOMAIN runtimeClientCache'
                               /\ runtimeClientCache'[CacheKeyOf(options)]
                                    = runtimeClientCache[CacheKeyOf(options)]]_vars

\* C23: a clearAuthCache() step removes the cached clients of one runtime
\* key at most: there is a runtime key such that every client cached under
\* any other runtime key is still cached after the step.
C23_AuthClearKeepsOtherRuntimes ==
    [][kLast'.op = "clearAuthCache"
          => \E runtimeKey \in DOMAIN runtimeClientKeyIndex \cup {defaultRuntimeKey} :
                \A other \in DOMAIN runtimeClientKeyIndex \ {runtimeKey} :
                    \A cacheKey \in runtimeClientKeyIndex[other] :
                        /\ cacheKey \in DOMAIN runtimeClientCache'
                        /\ runtimeClientCache'[cacheKey] = runtimeClientCache[cacheKey]]_vars

-----------------------------------------------------------------------------
(* Claims about ProviderManager.                                           *)

\* C4: the active name is '' (unset) or the name of a registered provider;
\* registerProvider(p) makes p active exactly when p.isDefault and no name
\* was active, and otherwise leaves the name as it was, so that registering
\* a non-default provider while hasActiveProvider() is false leaves it
\* false; setActiveProvider(n) for a registered n leaves
\* getActiveProviderName() = n and hasActiveProvider() true;
\* clearActiveProvider() leaves the name '' and hasActiveProvider() false.
C4_ActiveProviderMachine ==
    /\ (pmActive = "" \/ HasProvider(pmProviders, pmActive))
    /\ (pmLast.op = "registerProvider" =>
            /\ pmActive = IF pmLast.isDefault /\ pmLast.before = ""
                          THEN pmLast.name ELSE pmLast.before
            /\ (~pmLast.isDefault /\ ~pmLast.hadActive
                    => ~hasActiveProvider(pmActive, pmProviders)))
    /\ (pmLast.op = "setActiveProvider" /\ HasProvider(pmProviders, pmLast.name) =>
            /\ getActiveProviderName(pmActive) = pmLast.name
            /\ hasActiveProvider(pmActive, pmProviders))
    /\ (pmLast.op = "clearActiveProvider" =>
            /\ getActiveProviderName(pmActive) = ""
            /\ ~hasActiveProvider(pmActive, pmProviders))

\* After a provider was active and the active provider was cleared, a
\* default provider is registered and becomes the active one.
C4_Witness ==
    /\ pmLast.op = "registerProvider"
    /\ pmLast.isDefault
    /\ pmLast.before = ""
    /\ pmOps = 4
    /\ Len(pmProviders) = 2
    /\ pmActive = pmLast.name
    /\ hasActiveProvider(pmActive, pmProviders)

\* C19: a setActiveProvider step with a name that is not registered throws
\* and changes nothing: the active name in the settings, the server-tools
\* provider and the providers are as before, no clearState() was called
\* and no provider switch was logged.
C19_UnknownProviderRejected ==
    [][(/\ pmOps' = pmOps + 1
        /\ pmLast'.op = "setActiveProvider"
        /\ ~HasProvider(pmProviders, pmLast'.name))
          => /\ pmLast'.threw
             /\ pmLast'.effects = <<>>
             /\ pmActive' = pmActive
             /\ pmServerTools' = pmServerTools
             /\ pmProviders' = pmProviders]_vars

\* An unregistered name was rejected while a provider with clearState was
\* active and a server-tools provider was set: both are still in place.
C19_Witness ==
    /\ pmLast.op = "setActiveProvider"
    /\ pmLast.threw
    /\ ~HasProvider(pmProviders, pmLast.name)
    /\ pmLast.before # ""
    /\ pmActive = pmLast.before
    /\ GetProvider(pmProviders, pmActive).hasClearState
    /\ pmServerTools # NoProvider
    /\ pmServerTools.name # pmActive

\* C21: a setActiveProvider step never calls clearState() on the provider
\* whose adapter is the server-tools provider at the time of the call,
\* with or without the logging decorator around the registered providers.
C21_PinnedProviderNotCleared ==
    [][(/\ pmOps' = pmOps + 1
        /\ pmLast'.op = "setActiveProvider"
        /\ pmServerTools # NoProvider)
          => \A i \in 1..Len(pmLast'.effects) :
                pmLast'.effects[i] # <<"clearState", pmServerTools.name>>]_vars

\* The first registered name among config.getProvider(), 'openai' and the
\* providers in registration order; '' when there is none.
FallbackLadder(providers, config) ==
    LET candidates == <<config.provider, "openai">>
                      \o [i \in 1..Len(providers) |-> providers[i].name]
        registered == {i \in 1..Len(candidates) :
                          candidates[i] # "" /\ HasProvider(providers, candidates[i])}
    IN  IF registered = {} THEN ""
        ELSE candidates[CHOOSE i \in registered : \A j \in registered : i <= j]

\* C20: getActiveProvider() with an active name returns that provider and
\* writes nothing; with none active it resolves the first registered name
\* of the ladder, writes it to the settings and returns that provider;
\* with no provider registered it throws and writes nothing.
C20_FallbackLadder ==
    pmLast.op = "getActiveProvider" =>
        IF pmLast.before # ""
        THEN /\ ~pmLast.threw
             /\ pmLast.returned = GetProvider(pmProviders, pmLast.before)
             /\ pmLast.effects = <<>>
             /\ pmActive = pmLast.before
        ELSE IF Len(pmProviders) = 0
        THEN /\ pmLast.threw
             /\ pmLast.effects = <<>>
             /\ pmActive = ""
        ELSE /\ ~pmLast.threw
             /\ pmLast.returned = GetProvider(pmProviders, FallbackLadder(pmProviders, pmConfig))
             /\ pmLast.effects = <<<<"set", FallbackLadder(pmProviders, pmConfig)>>>>
             /\ pmActive = FallbackLadder(pmProviders, pmConfig)

\* With anthropic registered first, openai second and a config that names
\* no registered provider, getActiveProvider() resolved 'openai' and wrote it.
C20_Witness ==
    /\ pmLast.op = "getActiveProvider"
    /\ pmLast.before = ""
    /\ Len(pmProviders) = 2
    /\ pmProviders[1].name = "anthropic"
    /\ pmConfig.provider = ""
    /\ pmActive = "openai"
    /\ pmLast.returned.name = "openai"

\* The counters a fresh manager holds after the updates of a bag, applied
\* one by one in an order of this definition's choosing.
RECURSIVE AppliedTo(_, _)
AppliedTo(s, B) ==
    IF B = EmptyBag THEN s
    ELSE LET u == CHOOSE x \in BagToSet(B) : TRUE
         IN AppliedTo(Accumulated(s, u), B (-) SetToBag({u}))

\* The sum of two sets of counters.
PlusUsage(a, b) ==
    [input |-> a.input + b.input, output |-> a.output + b.output,
     cache |-> a.cache + b.cache, tool |-> a.tool + b.tool,
     thought |-> a.thought + b.thought, total |-> a.total + b.total]

\* What one update adds to a counter.
ClampedSum(B, field) ==
    LET S == BagToSet(B)
        Part(u) == CopiesIn(u, B) * (IF u[field] > 0 THEN u[field] ELSE 0)
        RECURSIVE Sum(_)
        Sum(T) == IF T = {} THEN 0
                  ELSE LET u == CHOOSE x \in T : TRUE IN Part(u) + Sum(T \ {u})
    IN Sum(S)

UsageFields == {"input", "output", "cache", "tool", "thought"}

\* C9: the counters depend on the multiset of the updates applied since the
\* last reset only, not on their order, and splitting the multiset in two
\* groups and adding what the groups give yields the same counters; each
\* counter is the sum of the positive components, a negative component
\* adding 0, and total is the sum of those; accumulateSessionTokens lowers
\* no counter.
C9_AccumulationIsOrderFree ==
    /\ sessionTokenUsage = AppliedTo(ZeroUsage, uApplied)
    /\ \A B \in SubBag(uApplied) :
            sessionTokenUsage =
                PlusUsage(AppliedTo(ZeroUsage, B), AppliedTo(ZeroUsage, uApplied (-) B))
    /\ \A f \in UsageFields : sessionTokenUsage[f] = ClampedSum(uApplied, f)
    /\ sessionTokenUsage.total =
            ClampedSum(uApplied, "input") + ClampedSum(uApplied, "output")
            + ClampedSum(uApplied, "cache") + ClampedSum(uApplied, "tool")
            + ClampedSum(uApplied, "thought")
    /\ (uLast.op = "accumulateSessionTokens" =>
            \A f \in UsageFields \cup {"total"} : sessionTokenUsage[f] >= uLast.before[f])

\* Three updates were accumulated, one of them twice and one with negative
\* components.
C9_Witness ==
    /\ uLast.op = "accumulateSessionTokens"
    /\ BagCardinality(uApplied) = 3
    /\ \E u \in BagToSet(uApplied) : CopiesIn(u, uApplied) = 2
    /\ \E u \in BagToSet(uApplied) : u.input < 0 /\ u.tool < 0
    /\ sessionTokenUsage.total > 0

-----------------------------------------------------------------------------
(* Claims about ProfileManager.                                            *)

\* A value as a JSON value: members that are undefined are not there.
RECURSIVE AsJson(_)
AsJson(v) ==
    IF v.t # "obj" THEN v
    ELSE LET Defined(member) == member[2].t # "undef"
             kept == SelectSeq(v.m, Defined)
         IN JObj([i \in 1..Len(kept) |-> <<kept[i][1], AsJson(kept[i][2])>>])

\* C8 as stated, for profile values of version 1: loadProfile(n) after
\* saveProfile(n, p), with no other write to n in between, returns a value
\* equal to p as a JSON value.
C8_SavedProfileLoadsBack ==
    (/\ fLast.op = "loadProfile"
     /\ fSaved[fLast.name] # NoProfile
     /\ Member(fSaved[fLast.name], "version") = JNum(1))
        => /\ fLast.ok
           /\ fLast.value = AsJson(fSaved[fLast.name])

\* C29: a loadProfile that fails (no file, text that is not JSON, a
\* required field missing, a version other than 1) throws an error whose
\* message holds the profile name.
C29_FailureNamesProfile ==
    (fLast.op = "loadProfile" /\ ~fLast.ok) => fLast.named

-----------------------------------------------------------------------------
(* Claims about the streaming loop.                                        *)

\* The content_block_start of the block that the event at k belongs to or
\* closes: the last start before k.
BlockStart(events, k) ==
    CHOOSE j \in 0..(k - 1) :
        /\ (j > 0 => events[j].type = "content_block_start")
        /\ \A i \in (j + 1)..(k - 1) : events[i].type # "content_block_start"

\* The input_json_delta fragments between two events, joined in arrival order.
RECURSIVE Fragments(_, _, _)
Fragments(events, j, k) ==
    IF j >= k THEN <<>>
    ELSE (IF events[j].sub = "input_json_delta" THEN events[j].text ELSE <<>>)
         \o Fragments(events, j + 1, k)

\* The items due for the event at k.
ItemsDue(events, k) ==
    LET e == events[k]
        j == BlockStart(events, k)
    IN CASE e.sub = "text_delta" -> <<TextItem(e.text)>>
         [] e.type = "content_block_stop" /\ j > 0 /\ events[j].sub = "tool_use" ->
                <<ToolCallItem(HIST_TOOL \o Substring(events[j].id, Len(TOOLU)),
                               processToolParameters(Fragments(events, j + 1, k)))>>
         [] e.type = "message_delta" /\ e.usage.present -> <<UsageItem(e.usage)>>
         [] OTHER -> <<>>

RECURSIVE ItemsDueUpTo(_, _)
ItemsDueUpTo(events, k) ==
    IF k = 0 THEN <<>> ELSE ItemsDueUpTo(events, k - 1) \o ItemsDue(events, k)

\* C10: after every event the items yielded are, in the order of the
\* events, one text item per text_delta and one tool-call item per
\* content_block_stop that closes a tool_use block, carrying the parse of
\* the block's fragments joined in arrival order; a tool call is pending
\* exactly while its block is open, so it is cleared after its yield.
C10_YieldsFollowEvents ==
    sPc # "idle" =>
        /\ sYielded = ItemsDueUpTo(sEvents, Len(sEvents))
        /\ currentToolCall.present = (sOpen = "tool_use")

\* A text was yielded, then a tool call assembled from two fragments that
\* form an object was yielded at its content_block_stop, and nothing is
\* pending.
C10_Witness ==
    /\ Len(sYielded) = 2
    /\ sYielded[1].kind = "text"
    /\ sYielded[2] = ToolCallItem(HIST_TOOL \o <<"a">>, [object |-> <<"x">>])
    /\ Len(sEvents) = 7
    /\ sEvents[7].type = "content_block_stop"
    /\ sEvents[5].sub = "input_json_delta"
    /\ sEvents[6].sub = "input_json_delta"
    /\ currentToolCall = NoToolCall

-----------------------------------------------------------------------------
(* Claims about calls in flight on one adapter.                            *)

\* The tool call that the events of one stream have under assembly.
ToolCallDue(events) ==
    LET j == BlockStart(events, Len(events) + 1)
    IN  IF j > 0 /\ events[j].sub = "tool_use"
           /\ \A i \in j..Len(events) : events[i].type # "content_block_stop"
        THEN [present |-> TRUE, id |-> events[j].id,
              input |-> Fragments(events, j + 1, Len(events) + 1)]
        ELSE NoToolCall

\* C11: whatever the interleaving of two streamed calls on one adapter, the
\* fields of the instance keep the values the constructor gave them, and
\* each call has yielded the items due for its own events and has under
\* assembly the tool call of its own open block; the client cache is what
\* the calls share.
C11_CallsDoNotObserveEachOther ==
    \A c \in CallIds :
        gPc[c] # "idle" =>
            /\ gFields = AdapterFields
            /\ gYielded[c] = ItemsDueUpTo(gEvents[c], Len(gEvents[c]))
            /\ gToolCall[c] = ToolCallDue(gEvents[c])

\* Both calls are assembling a tool call at the same time, with different
\* ids and fragments received, on a client they share.
C11_Witness ==
    /\ gOpen[1] = "tool_use"
    /\ gOpen[2] = "tool_use"
    /\ gToolCall[1].id = TOOLU \o <<"a">>
    /\ gToolCall[2].id = TOOLU \o <<"b">>
    /\ gToolCall[1].input = <<"{", "x">>
    /\ gToolCall[2].input = <<"x">>
    /\ gClient[1] = gClient[2]
    /\ gClient[1] # NoClient

-----------------------------------------------------------------------------
(* Claims about the request body.                                          *)

\* The request of a call built from nothing but the call's own options.
OwnRequest(options) ==
    RequestBody(options, AnthropicMessages(RequestContents).messages,
                options.userMemory,
                StreamingSettingFor(qProviderConfig, options),
                getModelParams(options.settings))

\* C12: every request sent carries the model parameters and the user
\* memory of its own call's options, whatever the instance holds and
\* whatever calls came before.
C12_RequestFromOwnOptions ==
    \A i \in 1..Len(qSent) : qSent[i].body = OwnRequest(qSent[i].options)

-----------------------------------------------------------------------------
(* Claims about the streamed call under retry.                             *)

\* The items due for the events of all attempts, attempt after attempt.
RECURSIVE ItemsOfLog(_)
ItemsOfLog(log) ==
    IF log = <<>> THEN <<>>
    ELSE ItemsDueUpTo(Head(log), Len(Head(log))) \o ItemsOfLog(Tail(log))

-----------------------------------------------------------------------------
(* Claims about concurrent insertions into the client cache.               *)

\* How often a client was instantiated for a cache key.
MadeFor(cacheKey) == Cardinality({i \in 1..Len(aMade) : aMade[i] = cacheKey})

\* C24: however the getClientForCall invocations interleave, one client
\* is instantiated for a cache key that an invocation resolved to, and
\* every invocation that resolved to the key returned that client.
C24_AtomicGetOrInsert ==
    \A c \in CallIds :
        aPc[c] = "done" =>
            /\ MadeFor(aKey[c]) = 1
            /\ aKey[c] \in DOMAIN runtimeClientCache
            /\ aClient[c] = runtimeClientCache[aKey[c]]
            /\ \A d \in CallIds :
                  aPc[d] = "done" /\ aKey[d] = aKey[c] => aClient[d] = aClient[c]

\* Both invocations began on an empty cache, awaited their token at the
\* same time, resolved to one key and returned the one client made for it.
C24_Witness ==
    /\ \A c \in CallIds :
          /\ aPc[c] = "done"
          /\ aOptions[c].authToken = ""
          /\ aSeen[c] = <<>>
    /\ aKey[1] = aKey[2]
    /\ aClient[1] = aClient[2]
    /\ Len(aMade) = 1

-----------------------------------------------------------------------------
(* Claims about the message list and the mode of the request.              *)

\* The two placeholder messages and the core prompt as a wrapped user turn.
Hello == StringMessage("user", <<"Hello">>)
ContinueTheConversation == StringMessage("user", <<"Continue the conversation">>)
WrappedPrompt ==
    StringMessage("user",
        <<"<system>">> \o getCoreSystemPromptAsync("", "claude-3-opus", "anthropic")
            \o <<"</system>">>)

\* The history leaves no message after the leading tool items are skipped
\* and the orphans pruned.
NothingRemains(content) == PruneOrphans(ConvertedMessages(content).messages) = <<>>

\* C26 as stated: the message list sent is never empty and starts with a
\* user message, and when nothing remains of the history it is the one
\* user message "Hello", without a tool_result.
C26_HelloAlone ==
    wPc = "sent" =>
        /\ Len(wBody.messages) > 0
        /\ wBody.messages[1].role = "user"
        /\ (NothingRemains(wContents) =>
                /\ wBody.messages = <<Hello>>
                /\ IdsSent(wBody.messages, "tool_result") = {})

\* C26: the message list sent is never empty and starts with a user
\* message; when nothing remains of the history it holds no tool_result
\* and is the one user message "Hello" for a request built for a key, and
\* the wrapped core prompt followed by "Hello" for a request built for an
\* OAuth token.
C26_HelloAfterPrompt ==
    wPc = "sent" =>
        /\ Len(wBody.messages) > 0
        /\ wBody.messages[1].role = "user"
        /\ (NothingRemains(wContents) =>
                /\ wBody.messages = IF wToken = "sk-ant-oat01-t"
                                    THEN <<WrappedPrompt, Hello>> ELSE <<Hello>>
                /\ IdsSent(wBody.messages, "tool_result") = {})

\* A history of two orphan tool responses, the second in a human item, was
\* sent for a key as the one message "Hello".
C26_Witness ==
    /\ wPc = "sent"
    /\ Len(wContents) = 2
    /\ wContents[1].speaker = "tool"
    /\ wContents[2].speaker = "human"
    /\ wContents[2].blocks[1].type = "tool_response"
    /\ wToken = "sk-ant-api03-t"
    /\ wBody.messages = <<Hello>>

\* The messages of the request after the wrapped core prompt, if it is there.
Conversation(messages) ==
    IF messages # <<>> /\ messages[1] = WrappedPrompt THEN Tail(messages) ELSE messages

C28_ClientAndBodyAgree ==
    wPc = "sent" =>
        IF wClient.oauth
        THEN /\ wBody.system
                    = <<"You are Claude Code, Anthropic's official CLI for Claude.">>
             /\ wBody.messages[1] = WrappedPrompt
        ELSE /\ wBody.system = getCoreSystemPromptAsync("", "claude-3-opus", "anthropic")
             /\ \A m \in 1..Len(wBody.messages) : wBody.messages[m] # WrappedPrompt

-----------------------------------------------------------------------------
(* Claims about the template engine.                                       *)

\* A name: characters other than braces.
IsName(s) == s # <<>> /\ \A i \in 1..Len(s) : s[i] \notin {"{", "}", " "}

\* Text without a brace.
IsPlain(s) == \A i \in 1..Len(s) : s[i] \notin {"{", "}"}

\* C30: a template of plain text is returned unchanged; plain text around
\* one token {{NAME}} is returned with the token replaced by the value of
\* NAME in the variable map, or by nothing when the map has no NAME; a
\* token nested in another stays as it is written; an opener that is never
\* closed is returned as it is written, with the text after it.
C30_SubstitutionRules ==
    mPc = "done" =>
        /\ (IsPlain(mContent) => mResult = mContent)
        /\ \A i \in 0..Len(mContent), j \in 0..Len(mContent) :
              (/\ i + 2 < j
               /\ j + 2 <= Len(mContent)
               /\ IsPlain(SubstringTo(mContent, 0, i))
               /\ SubstringTo(mContent, i, i + 2) = OPEN
               /\ IsName(SubstringTo(mContent, i + 2, j))
               /\ SubstringTo(mContent, j, j + 2) = CLOSE
               /\ IsPlain(SubstringTo(mContent, j + 2, Len(mContent))))
                  => mResult = SubstringTo(mContent, 0, i)
                        \o (IF SubstringTo(mContent, i + 2, j) \in DOMAIN mVars
                            THEN mVars[SubstringTo(mContent, i + 2, j)] ELSE <<>>)
                        \o SubstringTo(mContent, j + 2, Len(mContent))
        /\ \A i \in 2..Len(mContent), j \in 2..Len(mContent) :
              (/\ i + 2 < j
               /\ j + 4 <= Len(mContent)
               /\ SubstringTo(mContent, 0, 2) = OPEN
               /\ IsPlain(SubstringTo(mContent, 2, i))
               /\ SubstringTo(mContent, i, i + 2) = OPEN
               /\ IsName(SubstringTo(mContent, i + 2, j))
               /\ SubstringTo(mContent, j, j + 2) = CLOSE
               /\ IsPlain(SubstringTo(mContent, j + 2, Len(mContent) - 2))
               /\ SubstringTo(mContent, Len(mContent) - 2, Len(mContent)) = CLOSE)
                  => mResult = mContent
        /\ (Includes(mContent, OPEN) /\ ~Includes(mContent, CLOSE) => mResult = mContent)

-----------------------------------------------------------------------------
(* Claims about the number of attempts and the backoff delays.             *)

\* The call runs with the engine's defaults and fn keeps failing with a
\* transient error.
DefaultsSurfaceTransient ==
    /\ rPc = "thrown"
    /\ rOpts.maxAttempts = DEFAULT_MAX_ATTEMPTS
    /\ rOpts.shouldRetry = "default"
    /\ rThrown.err # 0
    /\ defaultShouldRetry(RetryHeap, rThrown.err)

\* C31: on a transient stream interruption or network failure the operation is
\* attempted six times ("attempt k/6") before the error is surfaced.
C31_SixAttemptsBeforeSurfacing ==
    DefaultsSurfaceTransient => rCalls = 6

\* C32: the base delay of the k-th consecutive wait not dictated by
\* Retry-After is min(maxDelayMs, initialDelayMs * 2^(k-1)) when
\* initialDelayMs <= maxDelayMs; it never exceeds maxDelayMs; the sleep is the
\* base plus a jitter of magnitude at most 30% of the base and is never negative.
C32_BackoffDelays ==
    /\ rSleeps > 0 /\ ~rSleep.explicit /\ rOpts.initialDelayMs <= rOpts.maxDelayMs =>
          /\ rSleep.base = Min(rOpts.maxDelayMs, rOpts.initialDelayMs * 2 ^ (rStreak - 1))
          /\ rSleep.base <= rOpts.maxDelayMs
          /\ rStreak = 1 => rSleep.base = rOpts.initialDelayMs
    /\ rSleeps > 0 /\ ~rSleep.explicit =>
          /\ rSleep.ms = rSleep.base + rSleep.jitter
          /\ 10 * rSleep.jitter <= 3 * rSleep.base
          /\ 10 * rSleep.jitter >= -(3 * rSleep.base)
          /\ rSleep.ms >= 0

\* A third consecutive backoff wait that has reached the cap, after a jittered
\* first wait.
C32_Witness ==
    /\ rPc = "sleeping"
    /\ ~rSleep.explicit
    /\ rStreak = 3
    /\ rOpts.initialDelayMs = 1000
    /\ rOpts.maxDelayMs = 1500
    /\ rSleep.base = 1500
    /\ rSleep.jitter # 0

-----------------------------------------------------------------------------
(* Claims about the clearing of the provider switched away from.           *)

\* The positions of the clearState() calls among the effects of a call.
ClearStateCalls(effects) == {i \in 1..Len(effects) : effects[i][1] = "clearState"}

\* C33: setActiveProvider(B) while a different registered provider A is active
\* that is not the server-tools provider and defines clearState calls
\* A.clearState() exactly once and before the new name is written to the
\* settings; clearState() is called on no other provider, and on none when B
\* is already the active provider.
C33_PreviousProviderCleared ==
    [][(pmOps' = pmOps + 1 /\ pmLast'.op = "setActiveProvider") =>
        LET A == pmActive
            B == pmLast'.name
            effects == pmLast'.effects
            calls == ClearStateCalls(effects)
        IN /\ \A i \in calls : effects[i][2] = A /\ A # B
           /\ A = B => calls = {}
           /\ (/\ ~pmLast'.threw
               /\ A # B
               /\ HasProvider(pmProviders, A)
               /\ pmServerTools.name # A
               /\ ClearStateIn(GetProvider(pmProviders, A)))
                 => /\ Cardinality(calls) = 1
                    /\ \E j \in 1..Len(effects) :
                          /\ effects[j] = <<"set", B>>
                          /\ \A i \in calls : i < j]_vars

\* A switch that cleared the previous provider, logged the switch and wrote
\* the new name, in this order.
C33_Witness ==
    /\ pmLast.op = "setActiveProvider"
    /\ ~pmLast.threw
    /\ pmLast.before # pmLast.name
    /\ pmLast.effects = <<<<"clearState", pmLast.before>>,
                          <<"logProviderSwitch", pmLast.name>>,
                          <<"set", pmLast.name>>>>
    /\ pmActive = pmLast.name

-----------------------------------------------------------------------------
(* Claims about the termination of the error traversal.                    *)

\* collectErrorDetails is synchronous code: once called, its loop runs pass
\* after pass until the stack is empty and the classification returns.
FairSpecErr == SpecErr /\ WF_vars(ErrNext)

\* C34: the traversal of the error graph terminates for every graph, cycles
\* and self-references through cause, originalError or error included, and
\* each error object is visited (expanded) at most once.
C34_TraversalTerminates ==
    /\ <>(ePc = "done")
    /\ [](\A i \in DOMAIN eVisits : eVisits[i] <= 1)

\* A finished traversal of a graph in which the third object is reached both
\* from the root and from the second object and points back to the root:
\* every object was expanded once.
C34_Witness ==
    /\ ePc = "done"
    /\ eHeap[1].cause = 2
    /\ eHeap[1].error = 3
    /\ eHeap[2].originalError = 3
    /\ eHeap[3].error = 1
    /\ \A i \in 1..ErrNodes : eVisits[i] = 1

-----------------------------------------------------------------------------
(* Claims about the teardown of a launched subagent.                       *)

\* C35: once launch() has succeeded, dispose() is called exactly once before
\* execute() returns, whether the run completes, throws or is aborted; on an
\* abort during the run scope.cancel() is called at most once and the result
\* is a cancelled result; with the signal aborted on entry no orchestrator is
\* created and nothing is launched.
C35_DisposedOnceCancelledOnAbort ==
    /\ tkPc = "returned" /\ tkLaunched => tkDisposes = 1
    /\ tkCancels <= 1
    /\ tkPc = "returned" /\ tkAbortAt = "running" => tkResult = "cancelled"
    /\ tkPc = "returned" /\ tkAbortAt = "entry" =>
          tkOrchestrators = 0 /\ tkLaunches = 0 /\ ~tkLaunched

-----------------------------------------------------------------------------
(* Claims about the session turn limit.                                    *)

\* The sequences of a sequence, one after the other.
RECURSIVE ConcatAll(_)
ConcatAll(seqs) == IF seqs = <<>> THEN <<>> ELSE Head(seqs) \o ConcatAll(Tail(seqs))

\* C36: with maxSessionTurns >= 0 at most maxSessionTurns requests are sent:
\* the turn beyond the limit throws FatalTurnLimitedError before its request
\* (none is sent with a limit of 0); a negative limit is no cap; below the
\* limit the loop returns at the first turn without a tool call, and otherwise
\* the tool responses of the turn, in request order, are the next message.
C36_TurnLimit ==
    /\ nMax >= 0 => Len(nRequests) <= nMax
    /\ nMax = 0 => nRequests = <<>>
    /\ nError = "FatalTurnLimitedError" =>
          nPc = "thrown" /\ nMax >= 0 /\ nTurn = nMax + 1 /\ Len(nRequests) = nMax
    /\ (nMax >= 0 /\ nTurn > nMax) => nError = "FatalTurnLimitedError"
    /\ nPc = "returned" =>
          \A t \in 1..Len(nTurns) : (nTurns[t].calls = <<>>) <=> (t = Len(nTurns))
    /\ \A t \in 1..Len(nTurns) :
          (nTurns[t].calls = <<>> /\ nPc \notin {"streaming", "thrown"}) => nPc = "returned"
    /\ \A t \in 2..Len(nRequests) :
          /\ Len(nTurns[t - 1].responses) = Len(nTurns[t - 1].calls)
          /\ nRequests[t] = ConcatAll(nTurns[t - 1].responses)
          /\ \A i, j \in 1..Len(nRequests[t]) :
                i < j => nRequests[t][i].call[2] <= nRequests[t][j].call[2]

\* The third turn is refused under a limit of two, after a second request
\* made of the responses of two tool calls in the order of the calls.
C36_Witness ==
    /\ nMax = 2
    /\ nPc = "thrown"
    /\ nError = "FatalTurnLimitedError"
    /\ Len(nRequests) = 2
    /\ Len(nTurns[1].calls) = 2
    /\ Len(nRequests[2]) = 4
    /\ nRequests[2][1].call = nTurns[1].calls[1]
    /\ nRequests[2][3].call = nTurns[1].calls[2]

-----------------------------------------------------------------------------
(* Claims about the invariants of the session counters.                    *)

\* C37: after any sequence of accumulateSessionTokens and
\* resetSessionTokenUsage calls every counter is >= 0 and total is the sum of
\* the five others; resetSessionTokenUsage leaves all six counters at 0, and
\* getSessionTokenUsage returns the current values and changes none.
C37_CountersConsistent ==
    /\ \A f \in UsageFields \cup {"total"} : sessionTokenUsage[f] >= 0
    /\ sessionTokenUsage.total =
          sessionTokenUsage.input + sessionTokenUsage.output + sessionTokenUsage.cache
          + sessionTokenUsage.tool + sessionTokenUsage.thought
    /\ uLast.op = "resetSessionTokenUsage" =>
          \A f \in UsageFields \cup {"total"} : sessionTokenUsage[f] = 0
    /\ uLast.op = "getSessionTokenUsage" =>
          uLast.result = uLast.before /\ sessionTokenUsage = uLast.before

\* The counters were read after an update with negative components and an
\* earlier reset.
C37_Witness ==
    /\ uLast.op = "getSessionTokenUsage"
    /\ uOps = 3
    /\ uLast.result.total > 0
    /\ BagCardinality(uApplied) = 1
    /\ \E u \in BagToSet(uApplied) : u.input < 0 /\ u.output < 0

-----------------------------------------------------------------------------
(* Claims about the agreement of the client cache and its key index.       *)

\* The cache keys the index holds.
IndexedKeys(index) == UNION {index[runtimeKey] : runtimeKey \in DOMAIN index}

\* clearClientCache was called last, with a non-blank runtime key.
ClearedOneRuntime(last) ==
    last.op = "clearClientCache" /\ Truthy(last.options) /\ Trim(last.options) # <<>>

\* C38: after any sequence of getClientForCall, clearClientCache(r),
\* clearClientCache() and clearAuthCache() a key is in the cache if and only
\* if it is in the index set of its runtime key (the one it was stored under,
\* and no other), no index set is empty, and after clearClientCache(r) neither
\* the cache nor the index holds a key of runtime r.
C38_CacheAndIndexAgree ==
    /\ [](/\ DOMAIN runtimeClientCache = IndexedKeys(runtimeClientKeyIndex)
          /\ \A runtimeKey \in DOMAIN runtimeClientKeyIndex :
                runtimeClientKeyIndex[runtimeKey] # {}
          /\ \A k1, k2 \in DOMAIN runtimeClientKeyIndex :
                k1 # k2 => runtimeClientKeyIndex[k1] \cap runtimeClientKeyIndex[k2] = {})
    /\ [][(/\ kCalls' = kCalls + 1
           /\ ~kLast'.threw
           /\ kLast'.key \notin DOMAIN runtimeClientCache)
             => /\ resolveRuntimeKey(kLast'.options) \in DOMAIN runtimeClientKeyIndex'
                /\ kLast'.key
                      \in runtimeClientKeyIndex'[resolveRuntimeKey(kLast'.options)]]_vars
    /\ [][ClearedOneRuntime(kLast')
             => /\ Trim(kLast'.options) \notin DOMAIN runtimeClientKeyIndex'
                /\ Trim(kLast'.options) \in DOMAIN runtimeClientKeyIndex
                      => runtimeClientKeyIndex[Trim(kLast'.options)]
                            \cap DOMAIN runtimeClientCache' = {}]_vars

\* clearClientCache(' A:') was called after two calls and the client of
\* another runtime, made by the first call, is still cached and indexed.
C38_Witness ==
    /\ ClearedOneRuntime(kLast)
    /\ kLast.options = <<" ", "A", ":">>
    /\ kCalls = 2
    /\ DOMAIN runtimeClientKeyIndex = {<<"A">>}
    /\ \E cacheKey \in DOMAIN runtimeClientCache :
          /\ runtimeClientCache[cacheKey].n = 1
          /\ runtimeClientKeyIndex[<<"A">>] = {cacheKey}

-----------------------------------------------------------------------------
(* Claims about failing save and load calls.                               *)

\* C39: a load(name, settings) or save(name, settings) that fails leaves the
\* settings service as it was before the call; its current profile name is
\* unchanged.
C39_FailureLeavesSettings ==
    (vLast.op \in {"save", "load"} /\ vLast.threw) =>
        /\ vName = vLast.nameBefore
        /\ vImported = vLast.importedBefore
        /\ vToolsSet = vLast.toolsSetBefore

-----------------------------------------------------------------------------
(* Claims about the distinctness of the tool ids sent.                     *)

\* The places of the ToolCallBlocks in the history that is converted.
ToolCallPlaces(content) ==
    LET items == FilteredContent(content)
    IN {q \in (1..Len(items)) \X (1..3) :
            /\ q[2] <= Len(items[q[1]].blocks)
            /\ items[q[1]].blocks[q[2]].type = "tool_call"}

ToolCallIdAt(content, q) == FilteredContent(content)[q[1]].blocks[q[2]].id

\* The places of the tool_use blocks with the given id in a message list.
ToolUsePlaces(messages, id) ==
    {q \in (1..Len(messages)) \X (1..3) :
        /\ q[2] <= Len(messages[q[1]].blocks)
        /\ messages[q[1]].blocks[q[2]].type = "tool_use"
        /\ messages[q[1]].blocks[q[2]].id = id}

\* C40: two ToolCallBlocks of one history with different ids are sent as
\* tool_use blocks with different ids, so that every tool_result sent has the
\* id of exactly one tool_use when the ids of the history's calls differ.
C40_DistinctCallsStayDistinct ==
    cPc = "sent" =>
        /\ \A p, q \in ToolCallPlaces(cIn) :
              ToolCallIdAt(cIn, p) # ToolCallIdAt(cIn, q) =>
                 normalizeToAnthropicToolId(ToolCallIdAt(cIn, p))
                    # normalizeToAnthropicToolId(ToolCallIdAt(cIn, q))
        /\ (\A p, q \in ToolCallPlaces(cIn) :
               p # q => ToolCallIdAt(cIn, p) # ToolCallIdAt(cIn, q))
              => \A id \in IdsSent(cOut, "tool_result") :
                    Cardinality(ToolUsePlaces(cOut, id)) = 1

====
